---- MODULE Spec2Model ----
(***************************************************************************)
(* A model of the resumable concurrent upload orchestrator of              *)
(* google-takeout-s3-importer: the worker pool (internal/worker/pool.go),  *)
(* the journal (internal/journal/journal.go), the per-archive upload       *)
(* driver (internal/uploader/uploader.go: Uploader.Run, uploadFile) and    *)
(* the retry policy (internal/uploader/retry.go: RetryWithBackoff).        *)
(*                                                                         *)
(* Four specifications share the variables:                               *)
(*   Spec       one Uploader.Run over the files of one archive, its file   *)
(*              goroutines, the pool and the journal;                      *)
(*   SpecRetry  one call of RetryWithBackoff, statement by statement, with *)
(*              the operation's results, the timer and the context drawn   *)
(*              by the environment;                                        *)
(*   SpecSched  one runUpload (pkg/cli/upload.go): the input path loop,    *)
(*              the archive semaphore and WaitGroup, the archive           *)
(*              goroutines with their deferred functions, their journals'  *)
(*              saves, and the interrupt of Execute;                       *)
(*   SpecJournal one Journal, its file and the goroutine of its periodic  *)
(*              save, across the calls of its methods and restarts of the  *)
(*              process.                                                   *)
(***************************************************************************)
EXTENDS Integers, Sequences, FiniteSets, TLC

\* ------------------------------------------------------------------ bounds
\* The most files ListFiles() returns.
NumFiles == 2
\* The largest pool capacity (config Upload.Concurrency) tried.
MaxPoolSize == 2
\* The largest RetryConfig.MaxRetries tried by SpecRetry.
MaxK == 3

\* The most archives the input paths of one runUpload expand to.
NumArchives == 2
\* The largest capacity of archiveSemaphore (config Upload.MaxConcurrentArchives).
MaxArchiveSlots == 2
\* The most input paths (args) of one runUpload.
MaxInputs == 2
\* The most files one archive's Run submits to its pool.
MaxArchiveFiles == 1
\* The most MarkUploaded calls on one Journal object tried by SpecJournal.
MaxMarks == 3

Paths == 1..NumFiles

Archives == 1..NumArchives

\* ------------------------------------------------------------------ errors
(* An error value is the chain fmt.Errorf("...: %w", inner) builds: a       *)
(* sequence of message tokens, outermost first; err.Error() is their join, *)
(* nil is the empty chain. A token is [m, op, n]: the message text, the    *)
(* operation it names (a kind and a path, NoOp for none), and the number   *)
(* it prints.                                                              *)
Nil == <<>>

NoOp == <<"", 0>>

\* fmt.Sprintf("Check existence of %s", filePath), "Open file %s", "Upload %s to S3"
OpName(kind, path) == <<kind, path>>

Tok(m, op, n) == [m |-> m, op |-> op, n |-> n]

\* fmt.Errorf("<text>: %w", inner)
Wrap(tok, inner) == <<tok>> \o inner

\* strings.Contains(outer.Error(), inner.Error()) for chains built by Wrap:
\* the inner chain is a suffix of the outer one.
ContainsErr(outer, inner) ==
    /\ Len(inner) <= Len(outer)
    /\ SubSeq(outer, Len(outer) - Len(inner) + 1, Len(outer)) = inner

(* The errors an external collaborator (object store, archive reader) or   *)
(* the context can produce, by name. For each: the sentinel errors.Is      *)
(* finds in it, and which of the substrings IsRetryable looks for occur in *)
(* its text (case-sensitively).                                            *)
RawNames == {"SlowDown", "i/o Timeout", "slowdown", "AccessDenied",
             "context canceled", "context deadline exceeded",
             "canceled: connection reset"}

Raw(name) == <<Tok(name, NoOp, 0)>>

Sentinel(name) ==
    CASE name = "context canceled" -> "Canceled"
      [] name = "context deadline exceeded" -> "DeadlineExceeded"
      [] name = "canceled: connection reset" -> "Canceled"
      [] OTHER -> "none"

\* The substrings of the token's text among the ones the classifier knows.
Substrings(name) ==
    CASE name = "SlowDown" -> {"SlowDown"}
      [] name = "i/o Timeout" -> {"Timeout"}
      [] name = "slowdown" -> {"slowdown"}
      [] name = "canceled: connection reset" -> {"connection", "reset"}
      [] OTHER -> {}

\* strings.ToLower on those substrings.
ToLower(s) ==
    CASE s = "SlowDown" -> "slowdown"
      [] s = "Timeout" -> "timeout"
      [] OTHER -> s

\* defaultRetryableErrors(): the S3 error codes, matched case-sensitively
\* (the ones the modelled error texts can contain or resemble).
RetryableErrors == {"RequestTimeout", "InternalError", "SlowDown",
                    "ServiceUnavailable", "ThrottlingException"}

\* The lower-case transient patterns of IsRetryable.
TransientPatterns == {"timeout", "connection", "reset", "broken pipe",
                      "network", "unavailable"}

ErrSubstrings(err) == UNION {Substrings(err[i].m) : i \in 1..Len(err)}

\* errors.Is(err, context.Canceled) || errors.Is(err, context.DeadlineExceeded)
IsContextErr(err) ==
    \E i \in 1..Len(err) : Sentinel(err[i].m) \in {"Canceled", "DeadlineExceeded"}

\* IsRetryable without its test of lines 73-76: the text alone decides.
IsRetryableByText(err) ==
    /\ err # Nil
    /\ \/ ErrSubstrings(err) \cap RetryableErrors # {}
       \/ {ToLower(s) : s \in ErrSubstrings(err)} \cap TransientPatterns # {}

\* RetryConfig.IsRetryable
IsRetryable(err) ==
    /\ err # Nil
    /\ ~IsContextErr(err)
    /\ \/ ErrSubstrings(err) \cap RetryableErrors # {}
       \/ {ToLower(s) : s \in ErrSubstrings(err)} \cap TransientPatterns # {}

\* ctx.Err() of a done context
CtxErr(state) ==
    IF state = "deadline" THEN Raw("context deadline exceeded")
    ELSE Raw("context canceled")

\* The three non-nil returns RetryWithBackoff builds itself.
CanceledBefore(op, ctxErr) == Wrap(Tok("canceled", op, 0), ctxErr)
CanceledDuringRetry(op, ctxErr) == Wrap(Tok("canceled during retry", op, 0), ctxErr)
FailedAfter(op, attempt, err) == Wrap(Tok("failed after attempts", op, attempt), err)

\* ------------------------------------------------------------------ state
VARIABLES
    \* config.Upload
    cfg,            \* [SkipExisting, DryRun]
    \* takeout.ListFiles(): the listed paths, in order, without repetition
    files,
    \* worker.Pool
    size,           \* cap(p.workers)
    workers,        \* len(p.workers): the slots taken
    wg,             \* p.wg: the WaitGroup's counter
    \* journal.Journal
    Uploads,        \* path -> "none" (no entry) or "uploaded" (an entry with
                    \* Uploaded = true, the only kind MarkUploaded writes)
    batchCount,
    saves,          \* background Save goroutines MarkUploaded has started
    \* the contexts
    ctxDone,        \* u.ctx: "live", "canceled"
    fctx,           \* fileCtx of each path: "none", "live", "canceled", "deadline",
                    \* "released" (cancel() has run; nothing reads it any more)
    \* Uploader.Run, the submitting goroutine
    pc, idx, totalFiles, uploadedFiles, uploadedBytes, skippedFiles, failedFiles,
    errCount, uploadErrors, errMsgs, runErr,
    \* the file goroutines, one per submitted path
    task,           \* where the goroutine of each path stands
    taskErr,        \* the error uploadFile returned
    \* history, for the statements only
    marked0,        \* the paths the journal marked uploaded when Run started
    called,         \* per path, the collaborator operations invoked for it
    outcome,        \* per path, how its pipeline ended
    \* RetryWithBackoff, one call (SpecRetry)
    rMax, rPc, attempt, rErr, rRet, rCtx, rTimer, rCalls, rSleeps, rHist, rCancelAt,
    \* getBackoffDuration, one call (SpecBackoff): the RetryConfig's
    \* InitialBackoff, MaxBackoff (milliseconds) and BackoffFactor, the jitter
    \* drawn (percent) and the duration returned (milliseconds)
    backoff,
    \* uploadFile's reader (SpecUpload): [offset, starts], the bytes consumed
    \* from the stream OpenFile returned and, for the statements, the offset
    \* at which each invocation of UploadFile began to read
    reader

runVars == <<cfg, files, size, workers, wg, Uploads, batchCount, saves, ctxDone, fctx,
             pc, idx, totalFiles, uploadedFiles, uploadedBytes, skippedFiles, failedFiles,
             errCount, uploadErrors, errMsgs, runErr, task, taskErr,
             marked0, called, outcome>>
retryVars == <<rMax, rPc, attempt, rErr, rRet, rCtx, rTimer, rCalls, rSleeps, rHist, rCancelAt,
               backoff, reader>>

VARIABLES
    \* runUpload (SpecSched): configuration and inputs
    maxArchives,      \* cap(archiveSemaphore)
    journalPath,      \* cfg.Upload.JournalPath != "": every archive has a journal of its own
    inputs,           \* per input path (args), what its expansion yields
    \* runUpload, the main goroutine
    spc,              \* where it stands
    argIdx,           \* the input path the loop is at
    pending,          \* archives of filesToProcess not yet started
    archiveSemaphore, \* len(archiveSemaphore): the slots taken
    schedWg,          \* wg: the WaitGroup's counter
    archiveErrors,    \* uploadErrors: the archives an error was appended for
    schedRet,         \* what runUpload returned: "none", "nil", "err"
    rootCtx,          \* the context of Execute: "live", "canceled"
    mainSaver,        \* the periodic save goroutine of jnl: "on", "off"; SpecJournal
                      \* follows it through its loop: "on" (in the select),
                      \* "ticked" (a tick received), "save" (in Save, at the
                      \* write), "log" (Save returned nil, before the log line)
    mainRecent,       \* jnl: now - lastSaveTime < saveInterval
    \* the archive goroutines
    apc,              \* where the goroutine of each archive stands
    archiveCtx,       \* "none", "live", "canceled"
    panicking,        \* the goroutine is unwinding from a panic
    left,             \* files Run has still to submit
    active,           \* file tasks admitted to the archive's pool and not finished
    failed,           \* the archive's errCount > 0
    ledger,           \* the archive's marks of this run against the journal's file:
                      \* "none" (no mark), "saved" (all on disk), "unsaved"
    saver             \* the periodic save goroutine of the archive's own journal

schedVars == <<maxArchives, journalPath, inputs, spc, argIdx, pending, archiveSemaphore,
               schedWg, archiveErrors, schedRet, rootCtx, mainSaver, mainRecent,
               apc, archiveCtx, panicking, left, active, failed, ledger, saver>>

VARIABLES
    \* one Journal and its file (SpecJournal); its entries, batch counter and
    \* started background saves are Uploads, batchCount and saves
    disk,             \* the file at j.path: [state, keys]
    recent,           \* now - j.lastSaveTime < j.saveInterval
    mu,               \* j.mu: "free"; held by a call that is at its file-system
                      \* operations: "Save", "Load" (a caller's), "Tick" (the
                      \* periodic save's); or "deadlock" (locked for ever)
    saveCtx,          \* the context of the periodic save: "none" (not started),
                      \* "live", "canceled"
    \* history, for the statements only
    jOp,              \* the last operation called
    jRet,             \* what it returned: "nil", "err", or "none" (it has not returned)
    jSaved,           \* the paths marked in memory at the last write of the file
    jReloaded         \* the last operation was a Load that followed a restart

fileVars == <<disk, recent, mu, saveCtx, jOp, jRet, jSaved, jReloaded>>

otherVars == <<schedVars, fileVars>>

vars == <<runVars, retryVars, otherVars>>

\* No reader is open.
NoReader == [offset |-> 0, starts |-> <<>>]

\* No call of getBackoffDuration is modelled.
NoBackoff == [InitialBackoff |-> 0, MaxBackoff |-> 0, BackoffFactor |-> 0,
              jitter |-> 0, wait |-> 0]

\* The journal file's variables outside SpecJournal.
FileOff ==
    /\ disk = [state |-> "absent", keys |-> {}]
    /\ recent = FALSE /\ mu = "free" /\ saveCtx = "none"
    /\ jOp = "none" /\ jRet = "nil" /\ jSaved = {} /\ jReloaded = FALSE

\* The scheduler's variables outside SpecSched.
SchedOff ==
    /\ maxArchives = 1 /\ journalPath = FALSE /\ inputs = <<>>
    /\ spc = "off" /\ argIdx = 1 /\ pending = 0
    /\ archiveSemaphore = 0 /\ schedWg = 0 /\ archiveErrors = {}
    /\ schedRet = "none" /\ rootCtx = "live"
    /\ mainSaver = "off" /\ mainRecent = FALSE
    /\ apc = [a \in Archives |-> "idle"]
    /\ archiveCtx = [a \in Archives |-> "none"]
    /\ panicking = [a \in Archives |-> FALSE]
    /\ left = [a \in Archives |-> 0]
    /\ active = [a \in Archives |-> 0]
    /\ failed = [a \in Archives |-> FALSE]
    /\ ledger = [a \in Archives |-> "none"]
    /\ saver = [a \in Archives |-> "off"]

\* MediaFile.Size of a listed file, in bytes: a size per path, all different.
FileSize(p) == p

\* ------------------------------------------------------------------ journal
IsUploadedIgnoresJournal(path) == FALSE

\* Journal.IsUploaded
IsUploaded(path) == Uploads[path] = "uploaded"

\* Journal.ListCompleted
ListCompleted == {path \in DOMAIN Uploads : Uploads[path] = "uploaded"}

\* The batch threshold of MarkUploaded.
BatchThreshold == 100

\* A MarkUploaded whose test is batchCount > 100.
MarkUploadedLate(path) ==
    /\ Uploads' = [Uploads EXCEPT ![path] = "uploaded"]
    /\ IF batchCount + 1 > BatchThreshold
       THEN batchCount' = 0 /\ saves' = saves + 1
       ELSE batchCount' = batchCount + 1 /\ saves' = saves

\* Journal.MarkUploaded: the entry is written with Uploaded = true; every
\* BatchThreshold-th mark resets the counter and starts a background Save.
MarkUploaded(path) ==
    /\ Uploads' = [Uploads EXCEPT ![path] = "uploaded"]
    /\ IF batchCount + 1 >= BatchThreshold
       THEN batchCount' = 0 /\ saves' = saves + 1
       ELSE batchCount' = batchCount + 1 /\ saves' = saves

\* ------------------------------------------------------------------ retry, seen from uploadFile
(* uploadFile hands each collaborator call to RetryWithBackoff and only    *)
(* tests the returned error against nil and wraps it. Here the first       *)
(* context check of the call is modelled as written (EnterRetry, below);   *)
(* what the call returns once fn has been invoked is nil or a non-nil      *)
(* error naming the operation, whose make-up (unchanged terminal error,    *)
(* exhaustion, cancellation) SpecRetry settles.                            *)
RetryErr(op) == <<Tok("RetryWithBackoff error", op, 0)>>

RetryReturns(op) == {Nil, RetryErr(op)}

\* ------------------------------------------------------------------ Uploader.Run
Ops == {"ObjectExists", "OpenFile", "UploadFile"}

NoErr == [isNil |-> TRUE, k |-> 0, n |-> 0, msgs |-> <<>>]

\* The cap on the messages the aggregate error lists.
MaxErrMsgs == 10

\* Run, lines 147-154: the first MaxErrMsgs messages, then one line counting the rest.
FormatErrMsgs(errs) ==
    IF Len(errs) <= MaxErrMsgs THEN errs
    ELSE Append(SubSeq(errs, 1, MaxErrMsgs),
                <<Tok("... and more errors", NoOp, Len(errs) - MaxErrMsgs)>>)

\* fmt.Errorf("upload completed with %d/%d files failed:\n%s", errCount, u.totalFiles, ...)
AggregateErr(k, n, msgs) == [isNil |-> FALSE, k |-> k, n |-> n, msgs |-> msgs]

Init ==
    /\ cfg \in [SkipExisting : BOOLEAN, DryRun : BOOLEAN]
    /\ \E n \in 0..NumFiles : files = [i \in 1..n |-> i]
    /\ size \in 1..MaxPoolSize
    /\ workers = 0
    /\ wg = 0
    /\ Uploads \in [Paths -> {"none", "uploaded"}]
    /\ \A p \in Paths : p > Len(files) => Uploads[p] = "none"
    /\ batchCount = 0
    /\ saves = 0
    /\ ctxDone = "live"
    /\ fctx = [p \in Paths |-> "none"]
    /\ pc = "start"
    /\ idx = 1
    /\ totalFiles = 0
    /\ uploadedFiles = 0 /\ uploadedBytes = 0
    /\ skippedFiles = 0
    /\ failedFiles = 0
    /\ errCount = 0
    /\ uploadErrors = <<>>
    /\ errMsgs = <<>>
    /\ runErr = NoErr
    /\ task = [p \in Paths |-> "idle"]
    /\ taskErr = [p \in Paths |-> Nil]
    /\ marked0 = {p \in Paths : Uploads[p] = "uploaded"}
    /\ called = [p \in Paths |-> {}]
    /\ outcome = [p \in Paths |-> "none"]
    /\ rMax = 0 /\ rPc = "off" /\ attempt = 0 /\ rErr = Nil /\ rRet = Nil
    /\ rCtx = "live" /\ rTimer = "off" /\ rCalls = 0 /\ rSleeps = 0
    /\ rHist = <<>> /\ rCancelAt = -1 /\ backoff = NoBackoff /\ reader = NoReader
    /\ SchedOff
    /\ FileOff

journalVars == <<Uploads, batchCount, saves>>
poolVars == <<size, workers, wg>>
mainVars == <<pc, idx, totalFiles, errMsgs, runErr>>
constVars == <<cfg, files, marked0>>

\* Run, lines 64-70: list the files; no file, no work.
RunStart ==
    /\ pc = "start"
    /\ totalFiles' = Len(files)
    /\ IF Len(files) = 0
       THEN pc' = "done" /\ runErr' = NoErr
       ELSE pc' = "loop" /\ runErr' = runErr
    /\ UNCHANGED <<constVars, poolVars, journalVars, ctxDone, fctx, idx,
                   uploadedFiles, uploadedBytes, skippedFiles, failedFiles, errCount, uploadErrors,
                   errMsgs, task, taskErr, called, outcome, retryVars, otherVars>>

\* Run, lines 102-109: the journal already marks the path: count it skipped.
RunSkip ==
    /\ pc = "loop"
    /\ idx <= Len(files)
    /\ IsUploaded(files[idx])
    /\ skippedFiles' = skippedFiles + 1
    /\ outcome' = [outcome EXCEPT ![files[idx]] = "skippedJournal"]
    /\ idx' = idx + 1
    /\ UNCHANGED <<constVars, poolVars, journalVars, ctxDone, fctx, pc, totalFiles,
                   uploadedFiles, uploadedBytes, failedFiles, errCount, uploadErrors, errMsgs, runErr,
                   task, taskErr, called, retryVars, otherVars>>

\* Pool.Submit: p.workers <- struct{}{} blocks while the channel is full, then
\* the goroutine is started.
SubmitNoBound(path) ==
    /\ workers' = workers + 1
    /\ task' = [task EXCEPT ![path] = "start"]
    /\ UNCHANGED <<size, wg>>

Submit(path) ==
    /\ workers < size
    /\ workers' = workers + 1
    /\ task' = [task EXCEPT ![path] = "start"]
    /\ UNCHANGED <<size, wg>>

\* Run, lines 111-136: derive the file's context from u.ctx and submit the task.
RunSubmit ==
    /\ pc = "loop"
    /\ idx <= Len(files)
    /\ ~IsUploaded(files[idx])
    /\ fctx' = [fctx EXCEPT ![files[idx]] = ctxDone]
    /\ Submit(files[idx])
    /\ idx' = idx + 1
    /\ UNCHANGED <<constVars, journalVars, ctxDone, pc, totalFiles,
                   uploadedFiles, uploadedBytes, skippedFiles, failedFiles, errCount, uploadErrors,
                   errMsgs, runErr, taskErr, called, outcome, retryVars, otherVars>>

\* Pool.Wait: p.wg.Wait() returns when the WaitGroup's counter is zero.
Wait == wg = 0

\* Run, line 140, after the last file was handled.
RunWait ==
    /\ pc = "loop"
    /\ idx > Len(files)
    /\ Wait
    /\ pc' = "check"
    /\ UNCHANGED <<constVars, poolVars, journalVars, ctxDone, fctx, idx, totalFiles,
                   uploadedFiles, uploadedBytes, skippedFiles, failedFiles, errCount, uploadErrors,
                   errMsgs, runErr, task, taskErr, called, outcome, retryVars, otherVars>>

\* Run, line 144: if errCount > 0 (a plain read); otherwise err stays nil and
\* Run returns it after logSummary.
RunCheckErrs ==
    /\ pc = "check"
    /\ IF errCount > 0
       THEN pc' = "format" /\ runErr' = runErr
       ELSE pc' = "done" /\ runErr' = NoErr
    /\ UNCHANGED <<constVars, poolVars, journalVars, ctxDone, fctx, idx, totalFiles,
                   uploadedFiles, uploadedBytes, skippedFiles, failedFiles, errCount, uploadErrors,
                   errMsgs, task, taskErr, called, outcome, retryVars, otherVars>>

\* Run, lines 146-154: range over uploadErrors (read without errMutex).
RunFormat ==
    /\ pc = "format"
    /\ errMsgs' = FormatErrMsgs(uploadErrors)
    /\ pc' = "build"
    /\ UNCHANGED <<constVars, poolVars, journalVars, ctxDone, fctx, idx, totalFiles,
                   uploadedFiles, uploadedBytes, skippedFiles, failedFiles, errCount, uploadErrors,
                   runErr, task, taskErr, called, outcome, retryVars, otherVars>>

\* Run, lines 156-163: build the aggregate error from errCount (read again) and
\* totalFiles, log the summary, return.
RunReturn ==
    /\ pc = "build"
    /\ runErr' = AggregateErr(errCount, totalFiles, errMsgs)
    /\ pc' = "done"
    /\ UNCHANGED <<constVars, poolVars, journalVars, ctxDone, fctx, idx, totalFiles,
                   uploadedFiles, uploadedBytes, skippedFiles, failedFiles, errCount, uploadErrors,
                   errMsgs, task, taskErr, called, outcome, retryVars, otherVars>>

\* ------------------------------------------------------------------ uploadFile
(* A file goroutine, from the closure Run submits (lines 118-136) through  *)
(* uploadFile. task[p] is where it stands:                                 *)
(*   "start"       started, uploadFile not yet entered                    *)
(*   "existsCall"  in RetryWithBackoff around ObjectExists, fn invoked     *)
(*   "openCall"    in RetryWithBackoff around OpenFile, fn invoked         *)
(*   "uploadCall"  in RetryWithBackoff around UploadFile, fn invoked       *)
(*   "mark"        counters updated, before journal.MarkUploaded           *)
(*   "appendErr"   uploadFile returned an error, failedFiles counted       *)
(*   "errCount"    the error appended, before errCount is incremented      *)
(*   "release"     the closure returned, before the slot is released       *)
(*   "done"        the goroutine ended                                     *)
(* A step is one access to shared state (the context, a counter, the       *)
(* journal, the error list, the pool) with the local code before it. The   *)
(* closure's deferred cancel() touches only the file's own context, which  *)
(* nothing reads once uploadFile has returned or passed its last           *)
(* RetryWithBackoff: it is taken with the step that leaves uploadFile's    *)
(* last context read (Leave).                                              *)
Running == {p \in Paths : task[p] \in {"start", "existsCall", "openCall", "uploadCall",
                                       "mark", "appendErr", "errCount"}}

StageErr(msg, err) == Wrap(Tok(msg, NoOp, 0), err)

\* Run, line 119: defer cancel().
Leave(p) == fctx' = [fctx EXCEPT ![p] = "released"]

FailIgnored(p, err) ==
    /\ task' = [task EXCEPT ![p] = "release"]
    /\ taskErr' = [taskErr EXCEPT ![p] = err]
    /\ UNCHANGED <<failedFiles, outcome>>
    /\ Leave(p)

FailCancelsSiblings(p, err) ==
    /\ task' = [task EXCEPT ![p] = "appendErr"]
    /\ taskErr' = [taskErr EXCEPT ![p] = err]
    /\ failedFiles' = failedFiles + 1
    /\ outcome' = [outcome EXCEPT ![p] = "failed"]
    /\ fctx' = [q \in Paths |-> IF q = p THEN "released"
                                ELSE IF fctx[q] = "live" THEN "canceled" ELSE fctx[q]]

\* Run, lines 122-124: uploadFile returned err: count the failure.
Fail(p, err) ==
    /\ task' = [task EXCEPT ![p] = "appendErr"]
    /\ taskErr' = [taskErr EXCEPT ![p] = err]
    /\ failedFiles' = failedFiles + 1
    /\ outcome' = [outcome EXCEPT ![p] = "failed"]
    /\ Leave(p)

Goto(p, next) ==
    /\ task' = [task EXCEPT ![p] = next]
    /\ UNCHANGED <<taskErr, failedFiles, outcome, fctx>>

\* RetryWithBackoff, lines 104-116, first iteration: a done context returns
\* the cancellation error before fn is invoked; otherwise fn is invoked.
EnterRetry(p, kind, msg, callPc) ==
    IF fctx[p] = "live"
    THEN Goto(p, callPc)
    ELSE Fail(p, StageErr(msg, CanceledBefore(OpName(kind, p), CtxErr(fctx[p]))))

AfterExistsIgnoresDryRun(p) ==
    /\ EnterRetry(p, "Open file", "failed to open file", "openCall")
    /\ UNCHANGED <<uploadedFiles, uploadedBytes>>

\* uploadFile, lines 199-271: dry run counts the file and goes on to the
\* journal; otherwise the source is opened.
AfterExists(p) ==
    IF cfg.DryRun
    THEN /\ uploadedFiles' = uploadedFiles + 1
         /\ uploadedBytes' = uploadedBytes + FileSize(p)
         /\ task' = [task EXCEPT ![p] = "mark"]
         /\ outcome' = [outcome EXCEPT ![p] = "dryRun"]
         /\ Leave(p)
         /\ UNCHANGED <<taskErr, failedFiles>>
    ELSE /\ EnterRetry(p, "Open file", "failed to open file", "openCall")
         /\ UNCHANGED <<uploadedFiles, uploadedBytes>>

\* uploadFile, lines 167-183 (and on to 271 without SkipExisting).
TaskBegin(p) ==
    /\ task[p] = "start"
    /\ IF cfg.SkipExisting
       THEN /\ EnterRetry(p, "Check existence", "failed to check if file exists",
                          "existsCall")
            /\ UNCHANGED <<uploadedFiles, uploadedBytes>>
       ELSE AfterExists(p)
    /\ UNCHANGED <<constVars, poolVars, journalVars, ctxDone, mainVars,
                   skippedFiles, errCount, uploadErrors, called, retryVars, otherVars>>

\* uploadFile, lines 179-197: the existence check returns.
TaskExistsReturn(p) ==
    /\ task[p] = "existsCall"
    /\ called' = [called EXCEPT ![p] = @ \cup {"ObjectExists"}]
    /\ \E r \in RetryReturns(OpName("Check existence", p)),
          exists \in BOOLEAN :
          IF r # Nil
          THEN /\ Fail(p, StageErr("failed to check if file exists", r))
               /\ UNCHANGED <<uploadedFiles, uploadedBytes, skippedFiles>>
          ELSE IF exists
          THEN /\ skippedFiles' = skippedFiles + 1
               /\ task' = [task EXCEPT ![p] = "release"]
               /\ outcome' = [outcome EXCEPT ![p] = "skippedRemote"]
               /\ Leave(p)
               /\ UNCHANGED <<taskErr, failedFiles, uploadedFiles, uploadedBytes>>
          ELSE /\ AfterExists(p)
               /\ UNCHANGED skippedFiles
    /\ UNCHANGED <<constVars, poolVars, journalVars, ctxDone, mainVars,
                   errCount, uploadErrors, retryVars, otherVars>>

\* uploadFile, lines 263-278: the open returns; on success the upload starts.
TaskOpenReturn(p) ==
    /\ task[p] = "openCall"
    /\ called' = [called EXCEPT ![p] = @ \cup {"OpenFile"}]
    /\ \E r \in RetryReturns(OpName("Open file", p)) :
          IF r # Nil
          THEN Fail(p, StageErr("failed to open file", r))
          ELSE EnterRetry(p, "Upload to S3", "failed to upload file", "uploadCall")
    /\ UNCHANGED <<constVars, poolVars, journalVars, ctxDone, mainVars,
                   uploadedFiles, uploadedBytes, skippedFiles, errCount, uploadErrors, retryVars, otherVars>>

UploadReturnMarksAnyway(p, r) ==
    /\ uploadedFiles' = uploadedFiles + 1
    /\ uploadedBytes' = uploadedBytes + FileSize(p)
    /\ task' = [task EXCEPT ![p] = "mark"]
    /\ outcome' = [outcome EXCEPT ![p] = IF r = Nil THEN "uploadOk" ELSE "failed"]
    /\ Leave(p)
    /\ UNCHANGED <<taskErr, failedFiles>>

\* uploadFile, lines 280-286.
UploadReturn(p, r) ==
    IF r # Nil
    THEN /\ Fail(p, StageErr("failed to upload file", r))
         /\ UNCHANGED <<uploadedFiles, uploadedBytes>>
    ELSE /\ uploadedFiles' = uploadedFiles + 1
         /\ uploadedBytes' = uploadedBytes + FileSize(p)
         /\ task' = [task EXCEPT ![p] = "mark"]
         /\ outcome' = [outcome EXCEPT ![p] = "uploadOk"]
         /\ Leave(p)
         /\ UNCHANGED <<taskErr, failedFiles>>

\* uploadFile, lines 276-286: the upload returns.
TaskUploadReturn(p) ==
    /\ task[p] = "uploadCall"
    /\ called' = [called EXCEPT ![p] = @ \cup {"UploadFile"}]
    /\ \E r \in RetryReturns(OpName("Upload to S3", p)) :
          UploadReturn(p, r)
    /\ UNCHANGED <<constVars, poolVars, journalVars, ctxDone, mainVars,
                   skippedFiles, errCount, uploadErrors, retryVars, otherVars>>

\* uploadFile, lines 207-210 and 294-300: mark the journal, return nil.
TaskMark(p) ==
    /\ task[p] = "mark"
    /\ MarkUploaded(p)
    /\ task' = [task EXCEPT ![p] = "release"]
    /\ UNCHANGED <<constVars, poolVars, ctxDone, fctx, mainVars,
                   uploadedFiles, uploadedBytes, skippedFiles, failedFiles, errCount, uploadErrors,
                   taskErr, called, outcome, retryVars, otherVars>>

\* Run, lines 130-132: append the file's error under errMutex.
TaskAppendErr(p) ==
    /\ task[p] = "appendErr"
    /\ uploadErrors' = Append(uploadErrors,
                              Wrap(Tok("failed to upload", OpName("", p), 0), taskErr[p]))
    /\ task' = [task EXCEPT ![p] = "errCount"]
    /\ UNCHANGED <<constVars, poolVars, journalVars, ctxDone, fctx, mainVars,
                   uploadedFiles, uploadedBytes, skippedFiles, failedFiles, errCount,
                   taskErr, called, outcome, retryVars, otherVars>>

\* Run, line 134: atomic.AddInt32(&errCount, 1); the closure returns.
TaskErrCount(p) ==
    /\ task[p] = "errCount"
    /\ errCount' = errCount + 1
    /\ task' = [task EXCEPT ![p] = "release"]
    /\ UNCHANGED <<constVars, poolVars, journalVars, ctxDone, fctx, mainVars,
                   uploadedFiles, uploadedBytes, skippedFiles, failedFiles, uploadErrors,
                   taskErr, called, outcome, retryVars, otherVars>>

\* Submit's deferred <-p.workers (pool.go, lines 26-28): the slot is released.
TaskRelease(p) ==
    /\ task[p] = "release"
    /\ workers' = workers - 1
    /\ task' = [task EXCEPT ![p] = "done"]
    /\ UNCHANGED <<constVars, size, wg, journalVars, ctxDone, fctx, mainVars,
                   uploadedFiles, uploadedBytes, skippedFiles, failedFiles, errCount, uploadErrors,
                   taskErr, called, outcome, retryVars, otherVars>>

\* ------------------------------------------------------------------ contexts
\* u.ctx is cancelled (the archive's context is a context.WithCancel): every
\* live file context derived from it is done with the same error.
CancelCtx ==
    /\ ctxDone = "live"
    /\ ctxDone' = "canceled"
    /\ fctx' = [p \in Paths |-> IF fctx[p] = "live" THEN "canceled" ELSE fctx[p]]
    /\ UNCHANGED <<constVars, poolVars, journalVars, mainVars,
                   uploadedFiles, uploadedBytes, skippedFiles, failedFiles, errCount, uploadErrors,
                   task, taskErr, called, outcome, retryVars, otherVars>>

\* The 30-minute timeout of one file context (Run, line 112) passes.
FileTimeout(p) ==
    /\ fctx[p] = "live"
    /\ fctx' = [fctx EXCEPT ![p] = "deadline"]
    /\ UNCHANGED <<constVars, poolVars, journalVars, ctxDone, mainVars,
                   uploadedFiles, uploadedBytes, skippedFiles, failedFiles, errCount, uploadErrors,
                   task, taskErr, called, outcome, retryVars, otherVars>>

Next ==
    \/ RunStart
    \/ RunSkip
    \/ RunSubmit
    \/ RunWait
    \/ RunCheckErrs
    \/ RunFormat
    \/ RunReturn
    \/ \E p \in Paths : TaskBegin(p)
    \/ \E p \in Paths : TaskExistsReturn(p)
    \/ \E p \in Paths : TaskOpenReturn(p)
    \/ \E p \in Paths : TaskUploadReturn(p)
    \/ \E p \in Paths : TaskMark(p)
    \/ \E p \in Paths : TaskAppendErr(p)
    \/ \E p \in Paths : TaskErrCount(p)
    \/ \E p \in Paths : TaskRelease(p)
    \/ CancelCtx
    \/ \E p \in Paths : FileTimeout(p)

Spec == Init /\ [][Next]_vars

\* ------------------------------------------------------------------ statements about Run
Listed == {files[i] : i \in 1..Len(files)}

Returned == pc = "done"

Quiescent == \A p \in Paths : task[p] \in {"idle", "done"}

Failed == {p \in Listed : outcome[p] = "failed"}

\* C1: the number of submitted tasks that have started and not yet finished
\* never exceeds the pool's capacity.
PoolBound == Cardinality(Running) <= size

\* C1's case: the pool is full of running tasks and Run stands before a
\* Submit for a further file.
PoolBoundWitness ==
    /\ Cardinality(Running) = size
    /\ pc = "loop"
    /\ idx <= Len(files)
    /\ ~IsUploaded(files[idx])

\* C2: Wait never returns while a task passed to Submit is still executing:
\* once Run is past pool.Wait(), no file goroutine is running.
WaitJoinsTasks == pc \in {"check", "format", "build", "done"} => Running = {}

\* C3: a path the journal marked uploaded before the run gets no ObjectExists,
\* OpenFile or UploadFile call and no task, and is counted as skipped once the
\* loop has passed it; skippedFiles counts exactly the skipped paths.
IdempotentResume ==
    /\ \A i \in 1..Len(files) :
          files[i] \in marked0 =>
             /\ called[files[i]] = {}
             /\ task[files[i]] = "idle"
             /\ (pc # "start" /\ idx > i) => outcome[files[i]] = "skippedJournal"
    /\ skippedFiles = Cardinality({p \in Paths : outcome[p] \in {"skippedJournal",
                                                                 "skippedRemote"}})

\* C3's case: Run has returned, it skipped a pre-marked path and uploaded another.
IdempotentResumeWitness ==
    /\ Returned
    /\ \E p \in Listed, q \in Listed :
          /\ p \in marked0
          /\ outcome[p] = "skippedJournal"
          /\ q \notin marked0
          /\ "UploadFile" \in called[q]

\* C4: in a run without dry-run in which no remote object exists and nothing
\* fails or is cancelled, when Run returns the journal marks every listed path
\* and the statistics are uploaded = unmarked files, skipped = pre-marked
\* files, failed = 0.
ScenarioA ==
    (/\ Returned
     /\ ~cfg.DryRun
     /\ ctxDone = "live"
     /\ \A p \in Paths : fctx[p] # "deadline" /\ outcome[p] \notin {"failed", "skippedRemote"})
    => /\ \A p \in Listed : IsUploaded(p)
       /\ uploadedFiles = Cardinality(Listed \ marked0)
       /\ skippedFiles = Cardinality(Listed \cap marked0)
       /\ failedFiles = 0

\* C5: when all is over, if K >= 1 of the N listed files ended failed, Run
\* returned an aggregate error stating K/N that contains each failure's
\* message; Run returned nil only if no file failed.
ScenarioBError ==
    (Returned /\ Quiescent) =>
       /\ Failed # {} =>
             /\ ~runErr.isNil
             /\ runErr.k = Cardinality(Failed)
             /\ runErr.n = Len(files)
             /\ \A p \in Failed :
                   \E i \in 1..Len(runErr.msgs) : ContainsErr(runErr.msgs[i], taskErr[p])
       /\ runErr.isNil => Failed = {}

\* C6: a path that failed in this run and was not marked before is not marked
\* in the journal nor listed by ListCompleted(); the journal gains a path only
\* after its upload succeeded, its remote object was found, or a dry run
\* recorded it.
JournalOnlyAfterSuccess ==
    \A p \in Paths :
       /\ (outcome[p] = "failed" /\ p \notin marked0) =>
             ~IsUploaded(p) /\ p \notin ListCompleted
       /\ (IsUploaded(p) /\ p \notin marked0) =>
             outcome[p] \in {"uploadOk", "skippedRemote", "dryRun"}

\* C6's case: one file of the run failed for good, another was recorded.
JournalOnlyAfterSuccessWitness ==
    \E p \in Listed, q \in Listed :
       /\ outcome[p] = "failed" /\ task[p] = "done" /\ p \notin marked0
       /\ IsUploaded(q) /\ q \notin marked0

\* C19: with skip-existing, a file whose remote object was found to exist ends
\* skipped with ObjectExists as its only collaborator call (no OpenFile, no
\* UploadFile) and its path is marked uploaded in the journal.
RemoteExistsMarksJournal ==
    \A p \in Paths :
       (outcome[p] = "skippedRemote" /\ task[p] = "done") =>
          /\ cfg.SkipExisting
          /\ called[p] = {"ObjectExists"}
          /\ IsUploaded(p)

\* C20: when Run has returned nil, ListCompleted() contains every listed path
\* and has as many entries as ListFiles() returned.
RunOkMarksAll ==
    (Returned /\ runErr.isNil) =>
       /\ Listed \subseteq ListCompleted
       /\ Cardinality(ListCompleted) = Len(files)

\* The outcomes a file's pipeline ends with.
Outcomes == {"skippedJournal", "skippedRemote", "dryRun", "uploadOk", "failed"}

\* The error of a failed path is in Run's error list.
Captured(p) ==
    \E i \in 1..Len(uploadErrors) : ContainsErr(uploadErrors[i], taskErr[p])

\* C21: a file's failure never stops its siblings: the step in which a file
\* ends failed counts it in failedFiles and changes neither the uploader's
\* context nor any other file's context, task or outcome; once the failed
\* file's goroutine is past the append, its error is in the error list; and
\* once the loop has handled every file and no goroutine is left, every
\* listed file has an outcome of its own.
FailureIsolated ==
    [][/\ \A p \in Paths :
             (outcome[p] # "failed" /\ outcome'[p] = "failed") =>
                /\ failedFiles' = failedFiles + 1
                /\ ctxDone' = ctxDone
                /\ \A q \in Paths \ {p} :
                      /\ fctx'[q] = fctx[q]
                      /\ task'[q] = task[q]
                      /\ outcome'[q] = outcome[q]
       /\ \A p \in Paths :
             (task[p] = "appendErr" /\ task'[p] # "appendErr") => Captured(p)'
       /\ (pc' # "start" /\ idx' > Len(files) /\ Quiescent') =>
             \A p \in Listed : outcome'[p] \in Outcomes]_vars

\* C21's case: with one pool slot, the first file failed and its error was
\* captured, and the second, which started only after that, was uploaded
\* under a live context.
FailureIsolatedWitness ==
    /\ size = 1 /\ Len(files) >= 2
    /\ Returned /\ Quiescent
    /\ ctxDone = "live"
    /\ outcome[files[1]] = "failed" /\ Captured(files[1])
    /\ outcome[files[2]] = "uploadOk" /\ IsUploaded(files[2])

\* uploadFile returned "failed to check if file exists: ..." for the path.
ExistsCheckFailed(p) ==
    /\ taskErr[p] # Nil
    /\ taskErr[p][1] = Tok("failed to check if file exists", NoOp, 0)

\* C22: with skip-existing, the step in which a file's existence check ends
\* in an error makes that file failed and counted, and changes neither the
\* journal nor any other file's task, context or outcome; such a file has no
\* OpenFile and no UploadFile call and no journal mark, then and later.
ExistsErrorFailsFile ==
    [][\A p \in Paths :
          /\ (~ExistsCheckFailed(p) /\ ExistsCheckFailed(p)') =>
                /\ cfg.SkipExisting
                /\ task[p] \in {"start", "existsCall"}
                /\ outcome'[p] = "failed"
                /\ failedFiles' = failedFiles + 1
                /\ Uploads' = Uploads
                /\ \A q \in Paths \ {p} :
                      /\ outcome'[q] = outcome[q]
                      /\ task'[q] = task[q]
                      /\ fctx'[q] = fctx[q]
          /\ ExistsCheckFailed(p)' =>
                /\ outcome'[p] = "failed"
                /\ called'[p] \subseteq {"ObjectExists"}
                /\ ~IsUploaded(p)']_vars

\* C22's case: a file's existence check was made and returned an error, the
\* file ended failed, and another file of the run was uploaded and marked.
ExistsErrorFailsFileWitness ==
    \E p \in Listed, q \in Listed :
       /\ cfg.SkipExisting
       /\ ExistsCheckFailed(p) /\ "ObjectExists" \in called[p]
       /\ task[p] = "done" /\ outcome[p] = "failed" /\ ~IsUploaded(p)
       /\ outcome[q] = "uploadOk" /\ IsUploaded(q) /\ task[q] = "done"

RECURSIVE SumSizes(_)
\* The bytes of a set of files.
SumSizes(S) ==
    IF S = {} THEN 0
    ELSE LET p == CHOOSE q \in S : TRUE IN FileSize(p) + SumSizes(S \ {p})

\* The files a dry run recorded.
DryRecorded == {p \in Paths : outcome[p] = "dryRun"}

\* The file's goroutine is past the skip checks of Run and uploadFile.
PassedSkipChecks(p) ==
    /\ task[p] \notin {"idle", "start", "existsCall"}
    /\ outcome[p] \notin {"skippedRemote", "failed"}

\* C23: in dry-run mode no OpenFile and no UploadFile call is made; every
\* file past the skip checks is recorded by the dry run, the file and byte
\* counters count exactly the recorded files and their sizes, and each is
\* marked uploaded in the journal by the time uploadFile has returned.
DryRunRecords ==
    cfg.DryRun =>
       /\ \A p \in Paths : called[p] \subseteq {"ObjectExists"}
       /\ \A p \in Paths : PassedSkipChecks(p) => p \in DryRecorded
       /\ uploadedFiles = Cardinality(DryRecorded)
       /\ uploadedBytes = SumSizes(DryRecorded)
       /\ \A p \in DryRecorded : task[p] \in {"release", "done"} => IsUploaded(p)

\* C23's case: a dry run has returned with two files recorded, one of them
\* after its existence check found no remote object.
DryRunRecordsWitness ==
    /\ cfg.DryRun /\ cfg.SkipExisting
    /\ Returned /\ Quiescent
    /\ Cardinality(DryRecorded) = 2
    /\ \E p \in DryRecorded : called[p] = {"ObjectExists"}
    /\ uploadedBytes = SumSizes(DryRecorded)
    /\ \A p \in DryRecorded : IsUploaded(p)

\* C37: once Run has returned, every listed file is counted in exactly one
\* of uploadedFiles, skippedFiles and failedFiles, as many errors were
\* collected as files failed, and it stays so (no counter moves any more).
CountersAtReturn ==
    Returned =>
       /\ uploadedFiles + skippedFiles + failedFiles = totalFiles
       /\ Len(uploadErrors) = failedFiles

\* ------------------------------------------------------------------ Run over many files
(* Uploader.Run over up to ManyFiles listed files, none of them marked in  *)
(* the journal, under a context u.ctx that is already cancelled when Run   *)
(* starts, with neither SkipExisting nor DryRun: every file context is     *)
(* born done and every pipeline fails at the first context check of its    *)
(* open, so the aggregate error is built from more failures than it lists. *)
(* The steps are the ones of Spec.                                         *)
ManyFiles == 11

ManyPaths == 1..ManyFiles

InitCanceled ==
    /\ cfg = [SkipExisting |-> FALSE, DryRun |-> FALSE]
    /\ \E n \in 0..ManyFiles : files = [i \in 1..n |-> i]
    /\ size \in 1..MaxPoolSize /\ workers = 0 /\ wg = 0
    /\ Uploads = [p \in ManyPaths |-> "none"]
    /\ batchCount = 0 /\ saves = 0
    /\ ctxDone = "canceled"
    /\ fctx = [p \in ManyPaths |-> "none"]
    /\ pc = "start" /\ idx = 1 /\ totalFiles = 0
    /\ uploadedFiles = 0 /\ uploadedBytes = 0 /\ skippedFiles = 0 /\ failedFiles = 0
    /\ errCount = 0 /\ uploadErrors = <<>> /\ errMsgs = <<>> /\ runErr = NoErr
    /\ task = [p \in ManyPaths |-> "idle"]
    /\ taskErr = [p \in ManyPaths |-> Nil]
    /\ marked0 = {}
    /\ called = [p \in ManyPaths |-> {}]
    /\ outcome = [p \in ManyPaths |-> "none"]
    /\ rMax = 0 /\ rPc = "off" /\ attempt = 0 /\ rErr = Nil /\ rRet = Nil
    /\ rCtx = "live" /\ rTimer = "off" /\ rCalls = 0 /\ rSleeps = 0
    /\ rHist = <<>> /\ rCancelAt = -1 /\ backoff = NoBackoff /\ reader = NoReader
    /\ SchedOff
    /\ FileOff

NextCanceled ==
    \/ RunStart
    \/ RunSubmit
    \/ RunWait
    \/ RunCheckErrs
    \/ RunFormat
    \/ RunReturn
    \/ \E p \in ManyPaths : TaskBegin(p)
    \/ \E p \in ManyPaths : TaskAppendErr(p)
    \/ \E p \in ManyPaths : TaskErrCount(p)
    \/ \E p \in ManyPaths : TaskRelease(p)

SpecCanceled == InitCanceled /\ [][NextCanceled]_vars

\* ------------------------------------------------------------------ statements about the aggregate error
\* The line "... and %d more errors" of the aggregate error.
MoreLine(n) == <<Tok("... and more errors", NoOp, n)>>

MoreLines(msgs) == {i \in 1..Len(msgs) : \E n \in 0..ManyFiles : msgs[i] = MoreLine(n)}

\* Every task Run submitted has ended.
AllEnded == \A p \in ManyPaths : task[p] \in {"idle", "done"}

\* C33: of a Run that returned an aggregate error and whose files have all
\* ended, K of them failed, the error lists at most MaxErrMsgs failure
\* messages, the first ones collected, and has one further line, counting
\* K - MaxErrMsgs remaining errors, exactly when K > MaxErrMsgs.
AggregateListsFirstTen ==
    (pc = "done" /\ ~runErr.isNil /\ AllEnded) =>
       LET K == failedFiles
           msgs == runErr.msgs
           more == MoreLines(msgs)
       IN /\ Len(msgs) - Cardinality(more) <= MaxErrMsgs
          /\ \A i \in 1..Len(msgs) : i \notin more => msgs[i] = uploadErrors[i]
          /\ more = IF K > MaxErrMsgs THEN {MaxErrMsgs + 1} ELSE {}
          /\ \A i \in more : msgs[i] = MoreLine(K - MaxErrMsgs)

\* ------------------------------------------------------------------ the worker Pool
(* One Pool (pool.go) and the tasks a caller submits to it, whatever they  *)
(* do: a task returns or panics. The deferred function of Submit's         *)
(* goroutine (lines 26-28) runs on both ways out; nothing recovers a       *)
(* panic, so once the deferred function has run the runtime ends the       *)
(* process. pc is "submit" while the process runs and "crashed" after; a   *)
(* task is "idle" (not submitted), "start" (admitted, task() running),     *)
(* "release" (task() returned), "panic" (task() panicked) or "done".       *)
MaxTasks == 4

PoolTasks == 1..MaxTasks

InitPool ==
    /\ cfg = [SkipExisting |-> FALSE, DryRun |-> FALSE]
    /\ files = <<>>
    /\ size \in 1..MaxPoolSize /\ workers = 0 /\ wg = 0
    /\ Uploads = [p \in Paths |-> "none"]
    /\ batchCount = 0 /\ saves = 0
    /\ ctxDone = "live"
    /\ fctx = [p \in Paths |-> "none"]
    /\ pc = "submit" /\ idx = 1 /\ totalFiles = 0
    /\ uploadedFiles = 0 /\ uploadedBytes = 0 /\ skippedFiles = 0 /\ failedFiles = 0
    /\ errCount = 0 /\ uploadErrors = <<>> /\ errMsgs = <<>> /\ runErr = NoErr
    /\ task = [p \in PoolTasks |-> "idle"]
    /\ taskErr = [p \in Paths |-> Nil]
    /\ marked0 = {}
    /\ called = [p \in Paths |-> {}]
    /\ outcome = [p \in Paths |-> "none"]
    /\ rMax = 0 /\ rPc = "off" /\ attempt = 0 /\ rErr = Nil /\ rRet = Nil
    /\ rCtx = "live" /\ rTimer = "off" /\ rCalls = 0 /\ rSleeps = 0
    /\ rHist = <<>> /\ rCancelAt = -1 /\ backoff = NoBackoff /\ reader = NoReader
    /\ SchedOff
    /\ FileOff

\* What a step of the pool leaves alone.
poolRest == <<constVars, journalVars, ctxDone, fctx, idx, totalFiles, errMsgs, runErr,
              uploadedFiles, uploadedBytes, skippedFiles, failedFiles, errCount, uploadErrors,
              taskErr, called, outcome, retryVars, otherVars>>

\* Pool.Submit(task), lines 22-25.
PoolSubmit(p) ==
    /\ pc = "submit"
    /\ task[p] = "idle"
    /\ Submit(p)
    /\ UNCHANGED <<pc, poolRest>>

\* Line 30: task() returns or panics.
PoolTaskEnds(p) ==
    /\ pc = "submit"
    /\ task[p] = "start"
    /\ \E end \in {"release", "panic"} : task' = [task EXCEPT ![p] = end]
    /\ UNCHANGED <<pc, poolVars, poolRest>>

\* Lines 26-28 after a return of task().
PoolRelease(p) ==
    /\ pc = "submit"
    /\ TaskRelease(p)

\* A goroutine that leaves a panicking task() without its deferred function.
PanicSkipsRelease(p) ==
    /\ task' = [task EXCEPT ![p] = "done"]
    /\ pc' = "crashed"
    /\ UNCHANGED <<poolVars, poolRest>>

\* Lines 26-28 after a panic of task(): the slot is released, then the
\* panic, which nothing recovers, ends the process.
PanicRelease(p) ==
    /\ workers' = workers - 1
    /\ task' = [task EXCEPT ![p] = "done"]
    /\ pc' = "crashed"
    /\ UNCHANGED <<size, wg, poolRest>>

PoolPanicUnwinds(p) ==
    /\ pc = "submit"
    /\ task[p] = "panic"
    /\ PanicRelease(p)

NextPool ==
    \/ \E p \in PoolTasks : PoolSubmit(p)
    \/ \E p \in PoolTasks : PoolTaskEnds(p)
    \/ \E p \in PoolTasks : PoolRelease(p)
    \/ \E p \in PoolTasks : PoolPanicUnwinds(p)

SpecPool == InitPool /\ [][NextPool]_vars

\* The tasks Submit admitted whose goroutine has not ended.
Admitted == {p \in PoolTasks : task[p] \in {"start", "release", "panic"}}

\* C36: the slots taken are as many as the tasks admitted and not finished,
\* and a goroutine that ends, by a return or a panic of its task, has given
\* back one slot.
PoolSlotAccounting ==
    /\ workers = Cardinality(Admitted)
    /\ workers <= size

\* C36's case: a task panicked and its goroutine has ended, while another
\* task still holds a slot.
PoolSlotAccountingWitness ==
    /\ pc = "crashed"
    /\ size = 2
    /\ workers = 1
    /\ Cardinality(Admitted) = 1

\* ------------------------------------------------------------------ the journal's batches
(* The file pipelines of an Uploader that end in success, one after        *)
(* another, against a Journal that starts without entries: each counts     *)
(* itself in uploadedFiles and uploadedBytes (uploadFile, lines 285-286)   *)
(* and calls journal.MarkUploaded (lines 294-296), so uploadedFiles is the *)
(* number of MarkUploaded calls made. A path can be marked again.          *)
MaxCalls == 250

InitMarks ==
    /\ cfg = [SkipExisting |-> FALSE, DryRun |-> FALSE]
    /\ files = <<>>
    /\ size = 1 /\ workers = 0 /\ wg = 0
    /\ Uploads = [p \in Paths |-> "none"]
    /\ batchCount = 0 /\ saves = 0
    /\ ctxDone = "live"
    /\ fctx = [p \in Paths |-> "none"]
    /\ pc = "off" /\ idx = 1 /\ totalFiles = 0
    /\ uploadedFiles = 0 /\ uploadedBytes = 0 /\ skippedFiles = 0 /\ failedFiles = 0
    /\ errCount = 0 /\ uploadErrors = <<>> /\ errMsgs = <<>> /\ runErr = NoErr
    /\ task = [p \in Paths |-> "idle"]
    /\ taskErr = [p \in Paths |-> Nil]
    /\ marked0 = {}
    /\ called = [p \in Paths |-> {}]
    /\ outcome = [p \in Paths |-> "none"]
    /\ rMax = 0 /\ rPc = "off" /\ attempt = 0 /\ rErr = Nil /\ rRet = Nil
    /\ rCtx = "live" /\ rTimer = "off" /\ rCalls = 0 /\ rSleeps = 0
    /\ rHist = <<>> /\ rCancelAt = -1 /\ backoff = NoBackoff /\ reader = NoReader
    /\ SchedOff
    /\ FileOff

\* uploadFile, lines 285-300, for a file of path p whose upload succeeded.
RecordUpload(p) ==
    /\ uploadedFiles < MaxCalls
    /\ uploadedFiles' = uploadedFiles + 1
    /\ uploadedBytes' = uploadedBytes + FileSize(p)
    /\ MarkUploaded(p)
    /\ UNCHANGED <<constVars, poolVars, ctxDone, fctx, mainVars, skippedFiles, failedFiles,
                   errCount, uploadErrors, task, taskErr, called, outcome, retryVars,
                   otherVars>>

NextMarks == \E p \in Paths : RecordUpload(p)

SpecMarks == InitMarks /\ [][NextMarks]_vars

\* C34: after n calls of MarkUploaded, floor(n / 100) background saves have
\* been started and the batch counter is n mod 100, within 0..99; a call
\* starts a save only when it is a 100th one, and no call touches the
\* journal's file or its save time.
MarkBatches ==
    /\ [](/\ saves = uploadedFiles \div BatchThreshold
          /\ batchCount = uploadedFiles % BatchThreshold
          /\ batchCount \in 0..(BatchThreshold - 1))
    /\ [][uploadedFiles' = uploadedFiles + 1 =>
             /\ saves' # saves <=> uploadedFiles' % BatchThreshold = 0
             /\ UNCHANGED <<disk, recent>>]_vars

\* C34's case: the 200th call has started the second background save.
MarkBatchesWitness ==
    /\ uploadedFiles = 2 * BatchThreshold
    /\ saves = 2
    /\ batchCount = 0

\* ------------------------------------------------------------------ RetryWithBackoff
(* One call RetryWithBackoff(ctx, operation, fn, config), statement by     *)
(* statement. rPc is where the call stands:                                *)
(*   "top"    at the loop head, before the context check (line 106)        *)
(*   "call"   the context check passed, fn() is being invoked (line 116)   *)
(*   "sleep"  in the select on time.After(backoff) and ctx.Done()          *)
(*   "done"   returned, rRet the returned error                            *)
(* The environment draws what fn returns, cancels the context and fires    *)
(* the timer. History: rCalls counts the invocations of fn, rSleeps the    *)
(* backoff waits begun, rHist lists what fn returned, rCancelAt is the     *)
(* number of invocations made when the context was cancelled inside a      *)
(* backoff wait whose timer had not fired (-1: no such cancellation).      *)
RetryOp == OpName("Upload to S3", 1)

InitRetry ==
    /\ cfg = [SkipExisting |-> FALSE, DryRun |-> FALSE]
    /\ files = <<>>
    /\ size = 1 /\ workers = 0 /\ wg = 0
    /\ Uploads = [p \in Paths |-> "none"]
    /\ batchCount = 0 /\ saves = 0
    /\ ctxDone = "live"
    /\ fctx = [p \in Paths |-> "none"]
    /\ pc = "off" /\ idx = 1 /\ totalFiles = 0
    /\ uploadedFiles = 0 /\ uploadedBytes = 0 /\ skippedFiles = 0 /\ failedFiles = 0
    /\ errCount = 0 /\ uploadErrors = <<>> /\ errMsgs = <<>> /\ runErr = NoErr
    /\ task = [p \in Paths |-> "idle"]
    /\ taskErr = [p \in Paths |-> Nil]
    /\ marked0 = {}
    /\ called = [p \in Paths |-> {}]
    /\ outcome = [p \in Paths |-> "none"]
    /\ rMax \in 0..MaxK
    /\ rCtx \in {"live", "canceled", "deadline"}
    /\ rPc = "top"
    /\ attempt = 0
    /\ rErr = Nil
    /\ rRet = Nil
    /\ rTimer = "off"
    /\ rCalls = 0
    /\ rSleeps = 0
    /\ rHist = <<>>
    /\ rCancelAt = -1
    /\ backoff = NoBackoff /\ reader = NoReader
    /\ SchedOff
    /\ FileOff

\* RetryWithBackoff, lines 104-108: the loop head. The loop ends when attempt
\* exceeds MaxRetries; a done context returns the cancellation error.
LoopHead ==
    /\ rPc = "top"
    /\ IF attempt > rMax
       THEN /\ rPc' = "done"
            /\ rRet' = FailedAfter(RetryOp, attempt, rErr)
       ELSE IF rCtx # "live"
       THEN /\ rPc' = "done"
            /\ rRet' = CanceledBefore(RetryOp, CtxErr(rCtx))
       ELSE /\ rPc' = "call"
            /\ rRet' = rRet
    /\ UNCHANGED <<runVars, otherVars, backoff, reader, rMax, attempt, rErr, rCtx, rTimer, rCalls, rSleeps,
                   rHist, rCancelAt>>

\* RetryWithBackoff, line 152, reached by the break of line 134.
Exhausted(err) ==
    /\ rPc' = "done"
    /\ rRet' = FailedAfter(RetryOp, attempt, err)
    /\ UNCHANGED <<attempt, rTimer, rSleeps>>

\* RetryWithBackoff, lines 138-145: the backoff is computed and the select
\* entered; the timer runs.
Backoff ==
    /\ rPc' = "sleep"
    /\ rTimer' = "running"
    /\ rSleeps' = rSleeps + 1
    /\ UNCHANGED <<attempt, rRet>>

ReturnWrapped(err) ==
    /\ rPc' = "done"
    /\ rRet' = IF err = Nil THEN Nil ELSE FailedAfter(RetryOp, attempt + 1, err)
    /\ UNCHANGED <<attempt, rTimer, rSleeps>>

\* A loop that does not return on success while retries are left.
RetriesAfterSuccess(err) ==
    IF err = Nil /\ attempt < rMax THEN Backoff
    ELSE /\ rPc' = "done"
         /\ rRet' = err
         /\ UNCHANGED <<attempt, rTimer, rSleeps>>

\* RetryWithBackoff, lines 119-124 and 127-130: what is returned at once.
ReturnNow(err) ==
    /\ rPc' = "done"
    /\ rRet' = err
    /\ UNCHANGED <<attempt, rTimer, rSleeps>>

RetriesOnceLess(err) ==
    IF attempt + 1 >= rMax THEN Exhausted(err) ELSE Backoff

\* RetryWithBackoff, lines 132-135: the last attempt failed.
AfterRetryable(err) ==
    IF attempt = rMax THEN Exhausted(err) ELSE Backoff

\* RetryWithBackoff, lines 116-149: fn() returns err.
Invoke ==
    /\ rPc = "call"
    /\ \E err \in {Nil} \cup {Raw(e) : e \in RawNames} :
          /\ rErr' = err
          /\ rCalls' = rCalls + 1
          /\ rHist' = Append(rHist, err)
          /\ IF err = Nil THEN ReturnNow(Nil)
             ELSE IF ~IsRetryable(err) THEN ReturnNow(err)
             ELSE AfterRetryable(err)
    /\ UNCHANGED <<runVars, otherVars, backoff, reader, rMax, rCtx, rCancelAt>>

\* RetryWithBackoff, lines 144-149 and the loop's attempt++: the select
\* takes a ready case, either one when both are ready.
TimerBranch ==
    /\ rPc = "sleep"
    /\ rTimer = "fired"
    /\ rPc' = "top"
    /\ attempt' = attempt + 1
    /\ rTimer' = "off"
    /\ UNCHANGED <<runVars, otherVars, backoff, reader, rMax, rErr, rRet, rCtx, rCalls, rSleeps, rHist, rCancelAt>>

DoneBranchRetries ==
    /\ rPc = "sleep"
    /\ rCtx # "live"
    /\ rPc' = "call"
    /\ attempt' = attempt + 1
    /\ rTimer' = "off"
    /\ UNCHANGED <<runVars, otherVars, backoff, reader, rMax, rErr, rRet, rCtx, rCalls, rSleeps, rHist, rCancelAt>>

DoneBranch ==
    /\ rPc = "sleep"
    /\ rCtx # "live"
    /\ rPc' = "done"
    /\ rRet' = CanceledDuringRetry(RetryOp, CtxErr(rCtx))
    /\ UNCHANGED <<runVars, otherVars, backoff, reader, rMax, attempt, rErr, rCtx, rTimer, rCalls, rSleeps,
                   rHist, rCancelAt>>

\* time.After(backoff): the timer fires.
TimerFires ==
    /\ rTimer = "running"
    /\ rTimer' = "fired"
    /\ UNCHANGED <<runVars, otherVars, backoff, reader, rMax, rPc, attempt, rErr, rRet, rCtx, rCalls, rSleeps,
                   rHist, rCancelAt>>

\* The governing context is cancelled or its deadline passes, at any moment
\* of the call.
CtxCancel ==
    /\ rCtx = "live"
    /\ rPc # "done"
    /\ rCtx' \in {"canceled", "deadline"}
    /\ rCancelAt' = IF rPc = "sleep" /\ rTimer = "running" THEN rCalls ELSE rCancelAt
    /\ UNCHANGED <<runVars, otherVars, backoff, reader, rMax, rPc, attempt, rErr, rRet, rTimer, rCalls, rSleeps,
                   rHist>>

NextRetry ==
    \/ LoopHead
    \/ Invoke
    \/ TimerBranch
    \/ DoneBranch
    \/ TimerFires
    \/ CtxCancel

SpecRetry == InitRetry /\ [][NextRetry]_vars

\* ------------------------------------------------------------------ statements about RetryWithBackoff
AllRetryable == \A i \in 1..Len(rHist) : IsRetryable(rHist[i])

CancelErrs ==
    {CanceledBefore(RetryOp, CtxErr(rCtx)), CanceledDuringRetry(RetryOp, CtxErr(rCtx))}

\* C7: when fn always returns a retryable error and the context is never
\* cancelled, the call ends after exactly MaxRetries + 1 invocations of fn
\* (one invocation for MaxRetries = 0).
RetryCount ==
    (rPc = "done" /\ AllRetryable /\ rCtx = "live") => rCalls = rMax + 1

\* C7's case: a call with MaxRetries >= 2 that used up its retries.
RetryCountWitness ==
    /\ rPc = "done"
    /\ AllRetryable
    /\ rCtx = "live"
    /\ rMax >= 2
    /\ rCalls = rMax + 1

\* C8: when the retries are exhausted, the returned error wraps the last
\* error of fn and names the operation and the attempt count MaxRetries + 1,
\* the number of times fn was invoked.
ExhaustionNamesAttempts ==
    (rPc = "done" /\ AllRetryable /\ rCtx = "live") =>
       /\ rRet = FailedAfter(RetryOp, rMax + 1, rErr)
       /\ rRet[1].n = rCalls

\* C9: when the first invocation of fn returns a non-retryable error, the
\* call has returned with that invocation, after one invocation and no
\* backoff wait, and returns that same error, not wrapped.
TerminalShortCircuit ==
    (Len(rHist) >= 1 /\ rHist[1] # Nil /\ ~IsRetryable(rHist[1])) =>
       /\ rPc = "done"
       /\ rCalls = 1
       /\ rSleeps = 0
       /\ rRet = rHist[1]

\* C9's case: with retries left, fn's first result was a terminal error.
TerminalShortCircuitWitness ==
    /\ rPc = "done"
    /\ rMax >= 1
    /\ rHist = <<Raw("AccessDenied")>>
    /\ rRet = Raw("AccessDenied")

ContextErrIsTerminal ==
    \A i \in 1..Len(rHist) :
       IsContextErr(rHist[i]) =>
          /\ i = Len(rHist)
          /\ rPc = "done"
          /\ rCalls = i
          /\ rSleeps = i - 1
          /\ rRet = rHist[i]

\* C32's case: with retries left, the second invocation returned an error
\* that wraps context.Canceled and whose text matches transient patterns.
ContextErrIsTerminalWitness ==
    /\ rPc = "done"
    /\ rMax >= 2
    /\ rHist = <<Raw("SlowDown"), Raw("canceled: connection reset")>>
    /\ rSleeps = 1
    /\ rRet = Raw("canceled: connection reset")

\* C40: whatever fn returns and whenever the context is cancelled, fn is
\* invoked at most MaxRetries + 1 times, no invocation follows one that
\* returned nil, and the call returns nil exactly when an invocation
\* returned nil.
RetryBounded ==
    /\ rCalls = Len(rHist)
    /\ rCalls <= rMax + 1
    /\ \A i \in 1..Len(rHist) : rHist[i] = Nil => i = Len(rHist)
    /\ rPc = "done" => (rRet = Nil <=> \E i \in 1..Len(rHist) : rHist[i] = Nil)

\* C40's case: every retry was used and the last permitted invocation
\* succeeded.
RetryBoundedWitness ==
    /\ rPc = "done"
    /\ rMax >= 2
    /\ rCalls = rMax + 1
    /\ rHist[rCalls] = Nil
    /\ rRet = Nil

\* ------------------------------------------------------------------ getBackoffDuration
(* One call getBackoffDuration(attempt, config). Durations are counted in  *)
(* milliseconds and the configured ones are whole seconds; the jitter is   *)
(* counted in percent, so that the products of line 162 are whole          *)
(* milliseconds and time.Duration(backoff) truncates nothing.              *)
(* rand.Float64() returns r / JitterSteps for an r in 0..JitterSteps-1, a  *)
(* value of [0, 1). rPc is "compute" before the call, "computed" after it. *)
MaxAttempt == 6

JitterSteps == 40

\* The 0.2 of line 161, in percent.
JitterPercent == 20

\* math.Pow(x, n) for whole x and n.
RECURSIVE Pow(_, _)
Pow(x, n) == IF n = 0 THEN 1 ELSE x * Pow(x, n - 1)

\* A jitter of twice the width.
JitterWide(r) == (r * 4 * JitterPercent) \div JitterSteps - 2 * JitterPercent

\* getBackoffDuration, line 161: (rand.Float64() * 0.4) - 0.2, in percent.
Jitter(r) == (r * 2 * JitterPercent) \div JitterSteps - JitterPercent

\* getBackoffDuration, line 158: the exponential term.
Exponential(n, config) == config.InitialBackoff * Pow(config.BackoffFactor, n)

\* getBackoffDuration, lines 162-169: the jitter is applied to the
\* exponential term, then the result is cut at MaxBackoff.
getBackoffDuration(n, config, j) ==
    LET jittered == (Exponential(n, config) * (100 + j)) \div 100
    IN IF jittered > config.MaxBackoff THEN config.MaxBackoff ELSE jittered

\* The configurations tried: DefaultRetryConfig's (1 s, 1 min, factor 2)
\* and others.
InitBackoff ==
    /\ cfg = [SkipExisting |-> FALSE, DryRun |-> FALSE]
    /\ files = <<>>
    /\ size = 1 /\ workers = 0 /\ wg = 0
    /\ Uploads = [p \in Paths |-> "none"]
    /\ batchCount = 0 /\ saves = 0
    /\ ctxDone = "live"
    /\ fctx = [p \in Paths |-> "none"]
    /\ pc = "off" /\ idx = 1 /\ totalFiles = 0
    /\ uploadedFiles = 0 /\ uploadedBytes = 0 /\ skippedFiles = 0 /\ failedFiles = 0
    /\ errCount = 0 /\ uploadErrors = <<>> /\ errMsgs = <<>> /\ runErr = NoErr
    /\ task = [p \in Paths |-> "idle"]
    /\ taskErr = [p \in Paths |-> Nil]
    /\ marked0 = {}
    /\ called = [p \in Paths |-> {}]
    /\ outcome = [p \in Paths |-> "none"]
    /\ rMax = MaxAttempt + 1 /\ rPc = "compute" /\ rErr = Nil /\ rRet = Nil
    /\ attempt \in 0..MaxAttempt
    /\ rCtx = "live" /\ rTimer = "off" /\ rCalls = 0 /\ rSleeps = 0
    /\ rHist = <<>> /\ rCancelAt = -1
    /\ backoff \in [InitialBackoff : {1000, 30000}, MaxBackoff : {10000, 60000},
                    BackoffFactor : {1, 2}, jitter : {0}, wait : {0}]
    /\ reader = NoReader
    /\ SchedOff
    /\ FileOff

\* RetryWithBackoff, line 138: backoff := getBackoffDuration(attempt, config).
GetBackoff ==
    /\ rPc = "compute"
    /\ \E r \in 0..(JitterSteps - 1) :
          backoff' = [backoff EXCEPT !.jitter = Jitter(r),
                                     !.wait = getBackoffDuration(attempt, backoff, Jitter(r))]
    /\ rPc' = "computed"
    /\ UNCHANGED <<runVars, otherVars, reader, rMax, attempt, rErr, rRet, rCtx, rTimer, rCalls,
                   rSleeps, rHist, rCancelAt>>

NextBackoff == GetBackoff

SpecBackoff == InitBackoff /\ [][NextBackoff]_vars

\* b = min(MaxBackoff, InitialBackoff * BackoffFactor^n)
Clamped(n, config) ==
    IF Exponential(n, config) > config.MaxBackoff THEN config.MaxBackoff
    ELSE Exponential(n, config)

\* C35 as stated: the wait is b * (1 + j) for the clamped b and the jitter
\* j drawn, it is not negative and it lies within [0.8 b, 1.2 b].
BackoffJittersClamped ==
    rPc = "computed" =>
       LET b == Clamped(attempt, backoff)
       IN /\ 100 * backoff.wait = b * (100 + backoff.jitter)
          /\ backoff.wait >= 0
          /\ (100 - JitterPercent) * b <= 100 * backoff.wait
          /\ 100 * backoff.wait <= (100 + JitterPercent) * b

\* C35, amended: the wait is the jittered exponential term, cut at
\* MaxBackoff: it is e * (1 + j) when that does not exceed MaxBackoff and
\* MaxBackoff otherwise; it is not negative, never more than MaxBackoff,
\* and within [0.8 b, 1.2 b].
BackoffClampsJittered ==
    rPc = "computed" =>
       LET b == Clamped(attempt, backoff)
           e == Exponential(attempt, backoff)
           j == backoff.jitter
       IN /\ -JitterPercent <= j /\ j <= JitterPercent
          /\ e * (100 + j) <= 100 * backoff.MaxBackoff => 100 * backoff.wait = e * (100 + j)
          /\ e * (100 + j) > 100 * backoff.MaxBackoff => backoff.wait = backoff.MaxBackoff
          /\ backoff.wait >= 0
          /\ backoff.wait <= backoff.MaxBackoff
          /\ (100 - JitterPercent) * b <= 100 * backoff.wait
          /\ 100 * backoff.wait <= (100 + JitterPercent) * b

\* C35's case: the exponential term exceeds MaxBackoff and its jittered
\* value does not, so the wait is neither MaxBackoff nor its jittered value.
BackoffClampsJitteredWitness ==
    /\ rPc = "computed"
    /\ Exponential(attempt, backoff) > backoff.MaxBackoff
    /\ backoff.wait < backoff.MaxBackoff
    /\ 100 * backoff.wait # backoff.MaxBackoff * (100 + backoff.jitter)

\* ------------------------------------------------------------------ the upload and its reader
(* uploadFile, lines 274-278: RetryWithBackoff around                      *)
(* u.s3Client.UploadFile(ctx, reader, ...), for a file whose OpenFile has  *)
(* returned reader (lines 261-272), a stream of StreamLen bytes read from  *)
(* its start on. The closure captures that one reader: an invocation reads *)
(* on from where the stream stands. It succeeds only by reading to the end *)
(* of the stream; it can fail after any number of bytes. The steps of      *)
(* RetryWithBackoff are SpecRetry's.                                       *)
StreamLen == 2

\* RetryWithBackoff, lines 116-149, with fn the closure of lines 276-278.
InvokeUpload ==
    /\ rPc = "call"
    /\ \E err \in {Nil} \cup {Raw(e) : e \in RawNames}, n \in 0..StreamLen :
          /\ reader.offset + n <= StreamLen
          /\ err = Nil => reader.offset + n = StreamLen
          /\ reader' = [offset |-> reader.offset + n,
                        starts |-> Append(reader.starts, reader.offset)]
          /\ rErr' = err
          /\ rCalls' = rCalls + 1
          /\ rHist' = Append(rHist, err)
          /\ IF err = Nil THEN ReturnNow(Nil)
             ELSE IF ~IsRetryable(err) THEN ReturnNow(err)
             ELSE AfterRetryable(err)
    /\ UNCHANGED <<runVars, otherVars, backoff, rMax, rCtx, rCancelAt>>

NextUpload ==
    \/ LoopHead
    \/ InvokeUpload
    \/ TimerBranch
    \/ DoneBranch
    \/ TimerFires
    \/ CtxCancel

SpecUpload == InitRetry /\ [][NextUpload]_vars

\* C39: every invocation of UploadFile for the file, the first and each
\* retry, begins to read at the start of the source stream.
UploadReadsFromStart ==
    \A i \in 1..Len(reader.starts) : reader.starts[i] = 0

\* ------------------------------------------------------------------ runUpload
(* One runUpload(ctx, cfg, args, isGlob), from line 153 on (the main       *)
(* journal jnl created, and saved once when cfg.Upload.Resume is set, its  *)
(* periodic save started). spc is where the main goroutine stands:         *)
(*   "expand"   at the head of the loop over args                          *)
(*   "add"      before wg.Add(1) for the next archive of filesToProcess    *)
(*   "acquire"  before archiveSemaphore <- struct{}{}                      *)
(*   "wait"     before wg.Wait()                                           *)
(*   "check"    wg.Wait() returned, before the test of uploadErrors        *)
(*   "done"     returned (the command ends and with it the process)        *)
(*   "crashed"  the process died of a panic nothing recovers               *)
(* apc[a] is where the goroutine of archive a stands:                      *)
(*   "idle"     not started                                                *)
(*   "client"   started, archiveCtx created, in s3client.New               *)
(*   "takeout"  in googletakeout.New                                       *)
(*   "journal"  before the journal of the archive is set up                *)
(*   "run"      in up.Run()                                                *)
(*   "defers"   the function body left (return or panic), before the       *)
(*              deferred StopPeriodicSave and archiveCancel                *)
(*   "release"  in the deferred function of lines 234-239, before          *)
(*              <-archiveSemaphore                                         *)
(*   "wgdone"   in it, before wg.Done()                                    *)
(*   "release2" in the deferred function of lines 225-232 after recover()  *)
(*              returned a panic, before <-archiveSemaphore                *)
(*   "wgdone2"  in it, before wg.Done()                                    *)
(*   "done"     the goroutine ended                                        *)
(* Run is seen from outside: it submits the archive's files to the         *)
(* archive's pool (capacity size), passes pool.Wait() and returns an error *)
(* when errCount > 0; a file task ends by marking the journal, by failing  *)
(* or by a skip.                                                           *)

\* What expanding one input path yields: an error (filepath.Glob,
\* findZipFiles), or n archives (n = 0: nothing matched).
Expansions == [err : {TRUE}, n : {0}] \cup [err : {FALSE}, n : 0..NumArchives]

RECURSIVE TotalArchives(_)
TotalArchives(ins) ==
    IF ins = <<>> THEN 0 ELSE Head(ins).n + TotalArchives(Tail(ins))

InitSched ==
    /\ cfg = [SkipExisting |-> TRUE, DryRun |-> FALSE]
    /\ files = <<>>
    /\ size \in 1..MaxPoolSize /\ workers = 0 /\ wg = 0
    /\ Uploads = [p \in Paths |-> "none"]
    /\ batchCount = 0 /\ saves = 0
    /\ ctxDone = "live"
    /\ fctx = [p \in Paths |-> "none"]
    /\ pc = "off" /\ idx = 1 /\ totalFiles = 0
    /\ uploadedFiles = 0 /\ uploadedBytes = 0 /\ skippedFiles = 0 /\ failedFiles = 0
    /\ errCount = 0 /\ uploadErrors = <<>> /\ errMsgs = <<>> /\ runErr = NoErr
    /\ task = [p \in Paths |-> "idle"]
    /\ taskErr = [p \in Paths |-> Nil]
    /\ marked0 = {}
    /\ called = [p \in Paths |-> {}]
    /\ outcome = [p \in Paths |-> "none"]
    /\ rMax = 0 /\ rPc = "off" /\ attempt = 0 /\ rErr = Nil /\ rRet = Nil
    /\ rCtx = "live" /\ rTimer = "off" /\ rCalls = 0 /\ rSleeps = 0
    /\ rHist = <<>> /\ rCancelAt = -1 /\ backoff = NoBackoff /\ reader = NoReader
    /\ maxArchives \in 1..MaxArchiveSlots
    /\ journalPath \in BOOLEAN
    /\ \E k \in 1..MaxInputs :
          /\ inputs \in [1..k -> Expansions]
          /\ TotalArchives(inputs) <= NumArchives
    /\ spc = "expand" /\ argIdx = 1 /\ pending = 0
    /\ archiveSemaphore = 0 /\ schedWg = 0 /\ archiveErrors = {}
    /\ schedRet = "none" /\ rootCtx = "live"
    /\ mainSaver = "on"
    /\ mainRecent \in BOOLEAN
    /\ apc = [a \in Archives |-> "idle"]
    /\ archiveCtx = [a \in Archives |-> "none"]
    /\ panicking = [a \in Archives |-> FALSE]
    /\ left = [a \in Archives |-> 0]
    /\ active = [a \in Archives |-> 0]
    /\ failed = [a \in Archives |-> FALSE]
    /\ ledger = [a \in Archives |-> "none"]
    /\ saver = [a \in Archives |-> "off"]
    /\ FileOff

schedConst == <<maxArchives, journalPath, inputs>>
schedMain == <<spc, argIdx, pending, schedRet>>
archiveTasks == <<left, active, failed>>

\* The process runs: runUpload has not returned and nothing crashed it.
ProcessLive == spc \notin {"done", "crashed"}

\* Journal.Save on the main journal jnl (part_004, lines 145-178), whose
\* entries are the marks of every archive when the archives share it (it
\* starts without entries): a save less than saveInterval after the last one
\* writes nothing unless the journal is empty.
SaveMain ==
    IF mainRecent /\ ~journalPath /\ (\E a \in Archives : ledger[a] # "none")
    THEN UNCHANGED <<ledger, mainRecent>>
    ELSE /\ mainRecent' = TRUE
         /\ ledger' = [a \in Archives |->
                          IF ~journalPath /\ ledger[a] = "unsaved" THEN "saved"
                          ELSE ledger[a]]

\* runUpload's returns, with the deferred function of lines 144-151:
\* jnl.StopPeriodicSave(), then jnl.Save().
Return(r) ==
    /\ spc' = "done"
    /\ schedRet' = r
    /\ mainSaver' = "off"
    /\ SaveMain

\* runUpload, lines 166-210 and 338: the next input path is expanded. An
\* expansion error returns at once.
Expand ==
    /\ spc = "expand"
    /\ IF argIdx > Len(inputs)
       THEN /\ spc' = "wait"
            /\ UNCHANGED <<argIdx, pending, schedRet, mainSaver, ledger, mainRecent>>
       ELSE IF inputs[argIdx].err
       THEN /\ Return("err")
            /\ UNCHANGED <<argIdx, pending>>
       ELSE IF inputs[argIdx].n = 0
       THEN /\ argIdx' = argIdx + 1
            /\ UNCHANGED <<spc, pending, schedRet, mainSaver, ledger, mainRecent>>
       ELSE /\ spc' = "add"
            /\ pending' = inputs[argIdx].n
            /\ UNCHANGED <<argIdx, schedRet, mainSaver, ledger, mainRecent>>
    /\ UNCHANGED <<runVars, retryVars, fileVars, schedConst, archiveSemaphore, schedWg,
                   archiveErrors, rootCtx, apc, archiveCtx, panicking, archiveTasks,
                   saver>>

\* runUpload, line 217: wg.Add(1).
AddArchive ==
    /\ spc = "add"
    /\ schedWg' = schedWg + 1
    /\ spc' = "acquire"
    /\ UNCHANGED <<runVars, retryVars, fileVars, schedConst, argIdx, pending, archiveSemaphore,
                   archiveErrors, schedRet, rootCtx, mainSaver, mainRecent,
                   apc, archiveCtx, panicking, archiveTasks, ledger, saver>>

\* The archives not yet started, in the order of filesToProcess.
NextArchive == CHOOSE a \in Archives :
                  /\ apc[a] = "idle"
                  /\ \A b \in Archives : b < a => apc[b] # "idle"

\* runUpload, line 220: archiveSemaphore <- struct{}{} blocks while the
\* channel is full.
Acquire ==
    /\ archiveSemaphore < maxArchives
    /\ archiveSemaphore' = archiveSemaphore + 1

\* runUpload, lines 220-247 and 332-336: a slot is acquired and the archive's
\* goroutine started; it creates its context from context.Background().
StartArchive ==
    /\ spc = "acquire"
    /\ Acquire
    /\ apc' = [apc EXCEPT ![NextArchive] = "client"]
    /\ archiveCtx' = [archiveCtx EXCEPT ![NextArchive] = "live"]
    /\ pending' = pending - 1
    /\ IF pending = 1
       THEN spc' = "expand" /\ argIdx' = argIdx + 1
       ELSE spc' = "add" /\ argIdx' = argIdx
    /\ UNCHANGED <<runVars, retryVars, fileVars, schedConst, schedWg, archiveErrors, schedRet,
                   rootCtx, mainSaver, mainRecent, panicking, archiveTasks, ledger,
                   saver>>

\* runUpload, line 340: wg.Wait() returns when the counter is zero.
WaitArchives ==
    /\ spc = "wait"
    /\ schedWg = 0
    /\ spc' = "check"
    /\ UNCHANGED <<runVars, retryVars, fileVars, schedConst, argIdx, pending, archiveSemaphore,
                   schedWg, archiveErrors, schedRet, rootCtx, mainSaver, mainRecent,
                   apc, archiveCtx, panicking, archiveTasks, ledger, saver>>

\* runUpload, lines 344-352: the errors are logged; both branches return nil.
Result == "nil"

ReturnResult ==
    /\ spc = "check"
    /\ Return(Result)
    /\ UNCHANGED <<runVars, retryVars, fileVars, schedConst, argIdx, pending, archiveSemaphore,
                   schedWg, archiveErrors, rootCtx, apc, archiveCtx, panicking,
                   archiveTasks, saver>>

\* An error is appended to uploadErrors under errorsMutex and the function
\* body returns (lines 254-260, 269-275, 319-324).
Report(a) ==
    /\ archiveErrors' = archiveErrors \cup {a}
    /\ apc' = [apc EXCEPT ![a] = "defers"]

\* runUpload, lines 252-261: s3client.New.
ArchiveClient(a) ==
    /\ ProcessLive
    /\ apc[a] = "client"
    /\ \E ok \in BOOLEAN :
          IF ok THEN /\ apc' = [apc EXCEPT ![a] = "takeout"]
                     /\ UNCHANGED archiveErrors
          ELSE Report(a)
    /\ UNCHANGED <<runVars, retryVars, fileVars, schedConst, schedMain, archiveSemaphore, schedWg,
                   rootCtx, mainSaver, mainRecent, archiveCtx, panicking, archiveTasks,
                   ledger, saver>>

\* runUpload, lines 264-276: googletakeout.New.
ArchiveTakeout(a) ==
    /\ ProcessLive
    /\ apc[a] = "takeout"
    /\ \E ok \in BOOLEAN :
          IF ok THEN /\ apc' = [apc EXCEPT ![a] = "journal"]
                     /\ UNCHANGED archiveErrors
          ELSE Report(a)
    /\ UNCHANGED <<runVars, retryVars, fileVars, schedConst, schedMain, archiveSemaphore, schedWg,
                   rootCtx, mainSaver, mainRecent, archiveCtx, panicking, archiveTasks,
                   ledger, saver>>

\* runUpload, lines 279-316, and Run's ListFiles: with a journal path the
\* archive gets a journal of its own, whose periodic save is started under
\* archiveCtx and whose StopPeriodicSave is deferred; otherwise it uses jnl.
\* (The journal's file exists, New having created it, so Load does not take
\* its missing-file branch.) Run starts with the files the journal does not
\* mark.
ArchiveJournal(a) ==
    /\ ProcessLive
    /\ apc[a] = "journal"
    /\ saver' = [saver EXCEPT ![a] = IF journalPath THEN "on" ELSE "off"]
    /\ \E n \in 0..MaxArchiveFiles : left' = [left EXCEPT ![a] = n]
    /\ apc' = [apc EXCEPT ![a] = "run"]
    /\ UNCHANGED <<runVars, retryVars, fileVars, schedConst, schedMain, archiveSemaphore, schedWg,
                   archiveErrors, rootCtx, mainSaver, mainRecent, archiveCtx, panicking,
                   active, failed, ledger>>

\* Run's loop (part_005, lines 111-136): the next file is submitted to the
\* archive's pool; Pool.Submit blocks while the pool is full.
ArchiveSubmit(a) ==
    /\ ProcessLive
    /\ apc[a] = "run"
    /\ left[a] > 0
    /\ active[a] < size
    /\ left' = [left EXCEPT ![a] = @ - 1]
    /\ active' = [active EXCEPT ![a] = @ + 1]
    /\ UNCHANGED <<runVars, retryVars, fileVars, schedConst, schedMain, archiveSemaphore, schedWg,
                   archiveErrors, rootCtx, mainSaver, mainRecent, apc, archiveCtx,
                   panicking, failed, ledger, saver>>

\* A file task of the archive ends (part_005, lines 118-136 and uploadFile):
\* recorded (the journal is marked), failed (errCount is incremented) or
\* skipped for an existing remote object.
FileTaskEnds(a) ==
    /\ ProcessLive
    /\ active[a] > 0
    /\ active' = [active EXCEPT ![a] = @ - 1]
    /\ \E end \in {"recorded", "failed", "skipped"} :
          /\ end = "skipped" => cfg.SkipExisting
          /\ ledger' = [ledger EXCEPT ![a] = IF end = "recorded" THEN "unsaved" ELSE @]
          /\ failed' = [failed EXCEPT ![a] = IF end = "failed" THEN TRUE ELSE @]
    /\ UNCHANGED <<runVars, retryVars, fileVars, schedConst, schedMain, archiveSemaphore, schedWg,
                   archiveErrors, rootCtx, mainSaver, mainRecent, apc, archiveCtx,
                   panicking, left, saver>>

\* up.Run() returns (part_005, lines 140-163; runUpload, lines 318-330): past
\* pool.Wait() it returns an error when errCount > 0, which is reported.
ArchiveRunReturns(a) ==
    /\ ProcessLive
    /\ apc[a] = "run"
    /\ left[a] = 0
    /\ Wait
    /\ IF failed[a] THEN Report(a)
       ELSE /\ apc' = [apc EXCEPT ![a] = "defers"]
            /\ UNCHANGED archiveErrors
    /\ UNCHANGED <<runVars, retryVars, fileVars, schedConst, schedMain, archiveSemaphore, schedWg,
                   rootCtx, mainSaver, mainRecent, archiveCtx, panicking, archiveTasks,
                   ledger, saver>>

\* A runtime fault in the archive's goroutine: the function body is left by
\* a panic and the deferred functions run.
ArchivePanics(a) ==
    /\ ProcessLive
    /\ apc[a] \in {"client", "takeout", "journal", "run"}
    /\ panicking' = [panicking EXCEPT ![a] = TRUE]
    /\ apc' = [apc EXCEPT ![a] = "defers"]
    /\ UNCHANGED <<runVars, retryVars, fileVars, schedConst, schedMain, archiveSemaphore, schedWg,
                   archiveErrors, rootCtx, mainSaver, mainRecent, archiveCtx,
                   archiveTasks, ledger, saver>>

\* The deferred archiveJournal.StopPeriodicSave() (line 308, registered only
\* for a journal of the archive's own): the journal is not saved.
Teardown(a) ==
    /\ saver' = [saver EXCEPT ![a] = "off"]
    /\ UNCHANGED ledger

\* runUpload, lines 308 and 247: the deferred StopPeriodicSave and
\* archiveCancel run, in this order.
ArchiveDefers(a) ==
    /\ ProcessLive
    /\ apc[a] = "defers"
    /\ Teardown(a)
    /\ archiveCtx' = [archiveCtx EXCEPT ![a] = "canceled"]
    /\ apc' = [apc EXCEPT ![a] = "release"]
    /\ UNCHANGED <<runVars, retryVars, fileVars, schedConst, schedMain, archiveSemaphore, schedWg,
                   archiveErrors, rootCtx, mainSaver, mainRecent, panicking,
                   archiveTasks>>

\* <-archiveSemaphore blocks while the channel is empty.
Release ==
    /\ archiveSemaphore > 0
    /\ archiveSemaphore' = archiveSemaphore - 1

\* wg.Done(): a counter that would become negative panics, and nothing
\* recovers a panic raised in these deferred functions.
Done ==
    IF schedWg = 0
    THEN spc' = "crashed" /\ UNCHANGED schedWg
    ELSE schedWg' = schedWg - 1 /\ UNCHANGED spc

\* runUpload, line 236.
ArchiveRelease(a) ==
    /\ ProcessLive
    /\ apc[a] = "release"
    /\ Release
    /\ apc' = [apc EXCEPT ![a] = "wgdone"]
    /\ UNCHANGED <<runVars, retryVars, fileVars, schedConst, schedMain, schedWg, archiveErrors,
                   rootCtx, mainSaver, mainRecent, archiveCtx, panicking, archiveTasks,
                   ledger, saver>>

\* runUpload, lines 225-232: the function deferred first runs last; when
\* recover() returns a panic it releases a slot and calls wg.Done() itself.
Recover(a) == IF panicking[a] THEN "release2" ELSE "done"

\* runUpload, lines 237-238, then the deferred function of lines 225-232 up
\* to its recover().
ArchiveWgDone(a) ==
    /\ ProcessLive
    /\ apc[a] = "wgdone"
    /\ Done
    /\ apc' = [apc EXCEPT ![a] = Recover(a)]
    /\ UNCHANGED <<runVars, retryVars, fileVars, schedConst, argIdx, pending, schedRet,
                   archiveSemaphore, archiveErrors, rootCtx, mainSaver, mainRecent,
                   archiveCtx, panicking, archiveTasks, ledger, saver>>

\* runUpload, line 229.
ArchiveRelease2(a) ==
    /\ ProcessLive
    /\ apc[a] = "release2"
    /\ Release
    /\ apc' = [apc EXCEPT ![a] = "wgdone2"]
    /\ UNCHANGED <<runVars, retryVars, fileVars, schedConst, schedMain, schedWg, archiveErrors,
                   rootCtx, mainSaver, mainRecent, archiveCtx, panicking, archiveTasks,
                   ledger, saver>>

\* runUpload, line 230.
ArchiveWgDone2(a) ==
    /\ ProcessLive
    /\ apc[a] = "wgdone2"
    /\ Done
    /\ apc' = [apc EXCEPT ![a] = "done"]
    /\ UNCHANGED <<runVars, retryVars, fileVars, schedConst, argIdx, pending, schedRet,
                   archiveSemaphore, archiveErrors, rootCtx, mainSaver, mainRecent,
                   archiveCtx, panicking, archiveTasks, ledger, saver>>

\* What cancelling the context of Execute reaches among the archives: their
\* contexts derive from context.Background() (line 246), not from it.
InterruptReaches == UNCHANGED <<archiveCtx, saver>>

\* Execute, lines 22-26: a signal cancels the root context; the periodic save
\* of jnl, started under it (line 143), stops.
Interrupt ==
    /\ ProcessLive
    /\ rootCtx = "live"
    /\ rootCtx' = "canceled"
    /\ mainSaver' = "off"
    /\ InterruptReaches
    /\ UNCHANGED <<runVars, retryVars, fileVars, schedConst, schedMain, archiveSemaphore, schedWg,
                   archiveErrors, mainRecent, apc, panicking, archiveTasks, ledger>>

\* StartPeriodicSave's goroutine, lines 117-132: the ticker of the main
\* journal fires and Save runs.
TickMain ==
    /\ ProcessLive
    /\ mainSaver = "on"
    /\ SaveMain
    /\ UNCHANGED <<runVars, retryVars, fileVars, schedConst, schedMain, archiveSemaphore, schedWg,
                   archiveErrors, rootCtx, mainSaver, apc, archiveCtx, panicking,
                   archiveTasks, saver>>

\* The ticker of an archive's own journal fires and Save runs; the ticks are
\* 5 minutes apart and nothing else saves that journal, so the save is not
\* within saveInterval of the last one.
TickArchive(a) ==
    /\ ProcessLive
    /\ saver[a] = "on"
    /\ ledger' = [ledger EXCEPT ![a] = IF @ = "unsaved" THEN "saved" ELSE @]
    /\ UNCHANGED <<runVars, retryVars, fileVars, schedConst, schedMain, archiveSemaphore, schedWg,
                   archiveErrors, rootCtx, mainSaver, mainRecent, apc, archiveCtx,
                   panicking, archiveTasks, saver>>

\* saveInterval (30 s) passes since the last save of the main journal.
IntervalPasses ==
    /\ ProcessLive
    /\ mainRecent
    /\ mainRecent' = FALSE
    /\ UNCHANGED <<runVars, retryVars, fileVars, schedConst, schedMain, archiveSemaphore, schedWg,
                   archiveErrors, rootCtx, mainSaver, apc, archiveCtx, panicking,
                   archiveTasks, ledger, saver>>

NextSched ==
    \/ Expand
    \/ AddArchive
    \/ StartArchive
    \/ WaitArchives
    \/ ReturnResult
    \/ \E a \in Archives : ArchiveClient(a)
    \/ \E a \in Archives : ArchiveTakeout(a)
    \/ \E a \in Archives : ArchiveJournal(a)
    \/ \E a \in Archives : ArchiveSubmit(a)
    \/ \E a \in Archives : FileTaskEnds(a)
    \/ \E a \in Archives : ArchiveRunReturns(a)
    \/ \E a \in Archives : ArchivePanics(a)
    \/ \E a \in Archives : ArchiveDefers(a)
    \/ \E a \in Archives : ArchiveRelease(a)
    \/ \E a \in Archives : ArchiveWgDone(a)
    \/ \E a \in Archives : ArchiveRelease2(a)
    \/ \E a \in Archives : ArchiveWgDone2(a)
    \/ Interrupt
    \/ TickMain
    \/ \E a \in Archives : TickArchive(a)
    \/ IntervalPasses

SpecSched == InitSched /\ [][NextSched]_vars

\* ------------------------------------------------------------------ statements about runUpload
ActiveArchives == {a \in Archives : active[a] > 0}

\* The archives whose goroutine holds a slot of archiveSemaphore.
Holding == {a \in Archives : apc[a] \in {"client", "takeout", "journal", "run",
                                         "defers", "release"}}

\* The archives wg.Add(1) was called for whose goroutine has not called wg.Done().
Joined == {a \in Archives : apc[a] \in {"client", "takeout", "journal", "run",
                                        "defers", "release", "wgdone"}}

\* C11: with MaxConcurrentArchives = 1, at most one archive has file tasks
\* admitted to its pool and not yet finished.
ScenarioC == maxArchives = 1 => Cardinality(ActiveArchives) <= 1

\* C14: when an archive's processing ends (its deferred journal handling has
\* run, after a return or a panic), the periodic save of its journal is
\* stopped and the journal's file contains every path the archive has marked.
FinalSaveAtArchiveEnd ==
    [][\A a \in Archives :
          (apc[a] = "defers" /\ apc'[a] = "release") =>
             /\ saver'[a] = "off"
             /\ ledger'[a] # "unsaved"]_vars

\* C15: once the root context is cancelled, every archive that is running
\* uploads (in Run, or with file tasks in flight) has a cancelled context.
InterruptStopsArchives ==
    rootCtx = "canceled" =>
       \A a \in Archives :
          (apc[a] = "run" \/ active[a] > 0) => archiveCtx[a] = "canceled"

\* C16: when runUpload has returned and an archive reported an error, it
\* returned a non-nil error; it returned nil only if no archive reported one.
SchedulerReportsErrors ==
    spc = "done" =>
       /\ archiveErrors # {} => schedRet = "err"
       /\ schedRet = "nil" => archiveErrors = {}

\* C17: when runUpload has returned, by whichever return, no archive
\* goroutine it started is still running.
SchedulerJoinsArchives ==
    spc = "done" => \A a \in Archives : apc[a] \in {"idle", "done"}

\* C18: a panicking archive goroutine releases its slot once and calls
\* wg.Done() once (it never enters a second release), its fault ends as a
\* reported error, nothing crashes the process, and the semaphore and the
\* WaitGroup keep counting exactly the archives that hold a slot and that
\* have not finished.
PanicReleasesOnce ==
    /\ spc # "crashed"
    /\ \A a \in Archives :
          panicking[a] =>
             /\ apc[a] \notin {"release2", "wgdone2"}
             /\ apc[a] = "done" => a \in archiveErrors
    /\ archiveSemaphore = Cardinality(Holding)
    /\ schedWg = Cardinality(Joined) + (IF spc = "acquire" THEN 1 ELSE 0)

\* The file pipelines executing system-wide: the tasks admitted to the pool
\* of some archive and not yet finished.
RECURSIVE InFlight(_)
InFlight(S) ==
    IF S = {} THEN 0
    ELSE LET a == CHOOSE x \in S : TRUE IN active[a] + InFlight(S \ {a})

\* The archives at work: the goroutine of the archive is between its start
\* and its release of the slot, or tasks of its pool are executing.
Working == {a \in Archives : a \in Holding \/ active[a] > 0}

\* C31: at most MaxConcurrentArchives archives are at work, and the file
\* pipelines executing system-wide never exceed MaxConcurrentArchives times
\* Concurrency.
ConcurrencyBound ==
    /\ Cardinality(Working) <= maxArchives
    /\ InFlight(Archives) <= maxArchives * size

\* C38: without an interrupt (and without a panic of the archive's
\* goroutine), the context of an archive is cancelled, and its slot
\* released, only when no file task submitted for the archive is still
\* running, so that no running pipeline sees its context cancelled.
CancelAfterTasks ==
    rootCtx = "live" =>
       \A a \in Archives :
          ~panicking[a] =>
             /\ archiveCtx[a] = "canceled" => active[a] = 0
             /\ apc[a] \in {"wgdone", "done"} => active[a] = 0

\* ------------------------------------------------------------------ the Journal and its file
(* One Journal (part_004), the file at its path and the goroutine of its   *)
(* periodic save. Every method but New, StartPeriodicSave and              *)
(* StopPeriodicSave runs from j.mu.Lock() to the deferred j.mu.Unlock(),   *)
(* so the calls of different goroutines (the file tasks, the periodic      *)
(* save, the background saves) are serialised. A method that only touches  *)
(* the entries is one step; Save and Load, which go to the file system     *)
(* with j.mu held, are two: up to the first file-system call, and from     *)
(* there to the return. A method that calls Save while it holds j.mu (Load *)
(* on a missing file, Clear) blocks in Save's j.mu.Lock(): sync.Mutex is   *)
(* not reentrant, so the mutex stays locked and no later call gets past    *)
(* its Lock (mu = "deadlock"). The process can be restarted at any moment: *)
(* the new process builds its Journal with New on the same path.           *)

\* The file paths tried as journal keys: one with a byte that is not valid
\* UTF-8 (0xFF), and the name it becomes when that byte is replaced by U+FFFD.
PathNames == {"a.jpg", "b<FF>.jpg", "b<U+FFFD>.jpg"}

\* encoding/json writes a string coerced to valid UTF-8: each invalid byte is
\* replaced by the replacement rune U+FFFD.
CoerceUTF8(name) == IF name = "b<FF>.jpg" THEN "b<U+FFFD>.jpg" ELSE name

\* json.MarshalIndent(j, "", "  ") (Save, line 164): the keys of the
\* "uploads" object; every entry in memory has Uploaded = true.
Marshal(uploads) == {CoerceUTF8(path) : path \in {q \in DOMAIN uploads : uploads[q] = "uploaded"}}

\* json.Unmarshal(data, &journal) and j.Uploads = journal.Uploads (Load,
\* lines 99-104): the map with the file's keys.
Unmarshal(keys) == [path \in PathNames |-> IF path \in keys THEN "uploaded" ELSE "none"]

NoEntries == [path \in PathNames |-> "none"]

\* The contents the file can have: missing, zero bytes (as New creates it),
\* bytes that are not a JSON document (a write cut short), or what an
\* earlier Save wrote.
Disks == {[state |-> "absent", keys |-> {}], [state |-> "empty", keys |-> {}],
          [state |-> "corrupt", keys |-> {}]}
         \cup [state : {"json"}, keys : SUBSET {CoerceUTF8(path) : path \in PathNames}]

\* json.Unmarshal (Load, line 100) fails on the file's bytes.
Unparsable(d) == d.state \in {"empty", "corrupt"}

\* New, lines 48-66: a missing file is created empty, unless that fails.
Created(d) ==
    IF d.state = "absent" THEN {d, [state |-> "empty", keys |-> {}]} ELSE {d}

runRest == <<cfg, files, size, workers, wg, ctxDone, fctx, pc, idx, totalFiles,
             uploadedFiles, uploadedBytes, skippedFiles, failedFiles, errCount, uploadErrors, errMsgs,
             runErr, task, taskErr, marked0, called, outcome>>

schedRest == <<maxArchives, journalPath, inputs, spc, argIdx, pending, archiveSemaphore,
               schedWg, archiveErrors, schedRet, rootCtx, mainRecent,
               apc, archiveCtx, panicking, left, active, failed, ledger, saver>>

\* What the journal's steps leave alone.
journalRest == <<runRest, retryVars, schedRest>>

\* The state after journal.New(path).
InitJournal ==
    /\ cfg = [SkipExisting |-> FALSE, DryRun |-> FALSE]
    /\ files = <<>>
    /\ size = 1 /\ workers = 0 /\ wg = 0
    /\ Uploads = NoEntries
    /\ batchCount = 0 /\ saves = 0
    /\ ctxDone = "live"
    /\ fctx = [p \in Paths |-> "none"]
    /\ pc = "off" /\ idx = 1 /\ totalFiles = 0
    /\ uploadedFiles = 0 /\ uploadedBytes = 0 /\ skippedFiles = 0 /\ failedFiles = 0
    /\ errCount = 0 /\ uploadErrors = <<>> /\ errMsgs = <<>> /\ runErr = NoErr
    /\ task = [p \in Paths |-> "idle"]
    /\ taskErr = [p \in Paths |-> Nil]
    /\ marked0 = {}
    /\ called = [p \in Paths |-> {}]
    /\ outcome = [p \in Paths |-> "none"]
    /\ rMax = 0 /\ rPc = "off" /\ attempt = 0 /\ rErr = Nil /\ rRet = Nil
    /\ rCtx = "live" /\ rTimer = "off" /\ rCalls = 0 /\ rSleeps = 0
    /\ rHist = <<>> /\ rCancelAt = -1 /\ backoff = NoBackoff /\ reader = NoReader
    /\ SchedOff
    /\ \E d \in Disks : disk \in Created(d)
    /\ recent = FALSE
    /\ mu = "free"
    /\ saveCtx = "none"
    /\ jOp = "New"
    /\ jRet = "nil"
    /\ jSaved = {}
    /\ jReloaded = FALSE

\* The process is restarted and builds its Journal again: journal.New(path),
\* lines 35-73. A write the old process was in the middle of is cut short.
New ==
    /\ \E d \in (IF mu \in {"Save", "Tick"}
                 THEN {disk, [state |-> "corrupt", keys |-> {}]}
                 ELSE {disk}) : disk' \in Created(d)
    /\ Uploads' = NoEntries
    /\ batchCount' = 0
    /\ saves' = 0
    /\ recent' = FALSE
    /\ mu' = "free"
    /\ saveCtx' = "none"
    /\ mainSaver' = "off"
    /\ jOp' = "New"
    /\ jRet' = "nil"
    /\ jReloaded' = FALSE
    /\ UNCHANGED <<journalRest, jSaved>>

\* Save, lines 149-152: within saveInterval of the last save a non-empty
\* journal is not written.
RateLimited == recent /\ ListCompleted # {}

\* Save, lines 156-177: the directory is made, the entries are marshalled and
\* written over the file; a failing MkdirAll or WriteFile returns its error.
Write ==
    \E ok \in BOOLEAN :
       IF ok
       THEN /\ disk' = [state |-> "json", keys |-> Marshal(Uploads)]
            /\ jSaved' = ListCompleted
            /\ jRet' = "nil"
       ELSE /\ UNCHANGED <<disk, jSaved>>
            /\ jRet' = "err"

\* Journal.Save, lines 145-154, called by some goroutine: the mutex is taken;
\* a rate-limited save returns nil at once, otherwise lastSaveTime is set and
\* the call goes on to the file system. final: the call is the one of
\* runUpload's deferred function (part_006, lines 144-151), which first stops
\* the periodic save.
Save(final) ==
    /\ mu = "free"
    /\ IF RateLimited
       THEN /\ jRet' = "nil"
            /\ UNCHANGED <<recent, mu>>
       ELSE /\ recent' = TRUE
            /\ mu' = "Save"
            /\ jRet' = "none"
    /\ saveCtx' = IF final /\ saveCtx = "live" THEN "canceled" ELSE saveCtx
    /\ jOp' = IF final THEN "FinalSave" ELSE "Save"
    /\ jReloaded' = FALSE
    /\ UNCHANGED <<journalRest, journalVars, mainSaver, disk, jSaved>>

\* Journal.Save, lines 156-178: the file-system part, then the deferred Unlock.
SaveWrites ==
    /\ mu = "Save"
    /\ Write
    /\ mu' = "free"
    /\ UNCHANGED <<journalRest, journalVars, mainSaver, recent, saveCtx, jOp, jReloaded>>

\* Journal.Load, lines 76-83: the mutex is taken and the file looked up.
Load ==
    /\ mu = "free"
    /\ mu' = "Load"
    /\ jOp' = IF jOp = "New" THEN "Load after New" ELSE "Load"
    /\ jRet' = "none"
    /\ jReloaded' = FALSE
    /\ UNCHANGED <<journalRest, journalVars, mainSaver, disk, recent, saveCtx, jSaved>>

LoadReadsClobbers ==
    /\ mu = "Load"
    /\ IF disk.state = "absent"
       THEN /\ mu' = "deadlock"
            /\ UNCHANGED <<Uploads, jRet, jReloaded>>
       ELSE /\ mu' = "free"
            /\ \E readOk \in BOOLEAN :
                  IF readOk /\ ~Unparsable(disk)
                  THEN /\ Uploads' = Unmarshal(disk.keys)
                       /\ jRet' = "nil"
                       /\ jReloaded' = (jOp = "Load after New")
                  ELSE /\ jRet' = "err"
                       /\ Uploads' = NoEntries
                       /\ UNCHANGED jReloaded
    /\ UNCHANGED <<journalRest, batchCount, saves, mainSaver, disk, recent, saveCtx, jOp,
                   jSaved>>

\* Journal.Load, lines 83-108: a missing file makes it call Save with j.mu
\* held; a file that cannot be read or does not parse returns the error;
\* otherwise the file's entries replace the ones in memory.
LoadReads ==
    /\ mu = "Load"
    /\ IF disk.state = "absent"
       THEN /\ mu' = "deadlock"
            /\ UNCHANGED <<Uploads, jRet, jReloaded>>
       ELSE /\ mu' = "free"
            /\ \E readOk \in BOOLEAN :
                  IF readOk /\ ~Unparsable(disk)
                  THEN /\ Uploads' = Unmarshal(disk.keys)
                       /\ jRet' = "nil"
                       /\ jReloaded' = (jOp = "Load after New")
                  ELSE /\ jRet' = "err"
                       /\ UNCHANGED <<Uploads, jReloaded>>
    /\ UNCHANGED <<journalRest, batchCount, saves, mainSaver, disk, recent, saveCtx, jOp,
                   jSaved>>

\* A call of Journal.MarkUploaded.
CallMarkUploaded(path) ==
    /\ mu = "free"
    /\ batchCount < MaxMarks
    /\ MarkUploaded(path)
    /\ jOp' = "MarkUploaded"
    /\ jRet' = "nil"
    /\ jReloaded' = FALSE
    /\ UNCHANGED <<journalRest, mainSaver, disk, recent, mu, saveCtx, jSaved>>

\* Journal.Clear, lines 210-216: the entries are dropped, then Save is called
\* with j.mu held.
Clear ==
    /\ mu = "free"
    /\ Uploads' = NoEntries
    /\ mu' = "deadlock"
    /\ jOp' = "Clear"
    /\ jRet' = "none"
    /\ jReloaded' = FALSE
    /\ UNCHANGED <<journalRest, batchCount, saves, mainSaver, disk, recent, saveCtx, jSaved>>

\* A call of Stats (lines 219-231) or ListCompleted (lines 234-245): the
\* entries are read under j.mu and nothing is written.
CallRead ==
    /\ mu = "free"
    /\ \E op \in {"Stats", "ListCompleted"} : jOp' = op
    /\ jRet' = "nil"
    /\ UNCHANGED <<journalRest, journalVars, mainSaver, disk, recent, mu, saveCtx, jSaved,
                   jReloaded>>

\* saveInterval (30 s) passes since the last save.
SaveIntervalPasses ==
    /\ recent
    /\ recent' = FALSE
    /\ UNCHANGED <<journalRest, journalVars, mainSaver, disk, mu, saveCtx, jOp, jRet, jSaved,
                   jReloaded>>

\* Journal.StartPeriodicSave, lines 111-134: saveCtx is derived from the
\* caller's context and the goroutine started.
StartPeriodicSave ==
    /\ saveCtx = "none"
    /\ saveCtx' = "live"
    /\ mainSaver' = "on"
    /\ jOp' = "StartPeriodicSave"
    /\ jRet' = "nil"
    /\ jReloaded' = FALSE
    /\ UNCHANGED <<journalRest, journalVars, disk, recent, mu, jSaved>>

\* Journal.StopPeriodicSave, lines 137-142, or the cancellation of the
\* context StartPeriodicSave was given: saveCtx is done.
StopPeriodicSave ==
    /\ saveCtx = "live"
    /\ saveCtx' = "canceled"
    /\ jOp' = "StopPeriodicSave"
    /\ jRet' = "nil"
    /\ jReloaded' = FALSE
    /\ UNCHANGED <<journalRest, journalVars, mainSaver, disk, recent, mu, jSaved>>

\* The goroutine of StartPeriodicSave, line 121: the ticker sends while the
\* goroutine waits in the select (or before it gets there, saveCtx done or
\* not), and the select takes the tick.
SaverTicked ==
    /\ mainSaver = "on"
    /\ mainSaver' = "ticked"
    /\ UNCHANGED <<journalRest, journalVars, disk, recent, mu, saveCtx, jOp, jRet, jSaved,
                   jReloaded>>

\* Line 122 and Save, lines 145-154: the goroutine calls j.Save().
SaverSaves ==
    /\ mainSaver = "ticked"
    /\ mu = "free"
    /\ IF RateLimited
       THEN /\ mainSaver' = "log"
            /\ jRet' = "nil"
            /\ UNCHANGED <<recent, mu>>
       ELSE /\ mainSaver' = "save"
            /\ recent' = TRUE
            /\ mu' = "Tick"
            /\ jRet' = "none"
    /\ jOp' = "PeriodicSave"
    /\ jReloaded' = FALSE
    /\ UNCHANGED <<journalRest, journalVars, disk, saveCtx, jSaved>>

\* Save, lines 156-178, in the goroutine: the file-system part and the
\* return; an error is logged (line 123) and the loop goes on.
SaverWrites ==
    /\ mainSaver = "save"
    /\ mu = "Tick"
    /\ Write
    /\ mu' = "free"
    /\ mainSaver' = IF jRet' = "nil" THEN "log" ELSE "on"
    /\ UNCHANGED <<journalRest, journalVars, recent, saveCtx, jOp, jReloaded>>

\* Line 125: Save returned nil; the log line reads len(j.Uploads), j.mu not
\* held, and the loop goes on.
SaverLogs ==
    /\ mainSaver = "log"
    /\ mainSaver' = "on"
    /\ UNCHANGED <<journalRest, journalVars, disk, recent, mu, saveCtx, jOp, jRet, jSaved,
                   jReloaded>>

\* Lines 127-129: the select takes saveCtx.Done() and the goroutine returns.
SaverStops ==
    /\ mainSaver = "on"
    /\ saveCtx = "canceled"
    /\ mainSaver' = "off"
    /\ UNCHANGED <<journalRest, journalVars, disk, recent, mu, saveCtx, jOp, jRet, jSaved,
                   jReloaded>>

NextJournal ==
    \/ New
    \/ \E final \in BOOLEAN : Save(final)
    \/ SaveWrites
    \/ Load
    \/ LoadReads
    \/ \E path \in PathNames : CallMarkUploaded(path)
    \/ Clear
    \/ CallRead
    \/ SaveIntervalPasses
    \/ StartPeriodicSave
    \/ StopPeriodicSave
    \/ SaverTicked
    \/ SaverSaves
    \/ SaverWrites
    \/ SaverLogs
    \/ SaverStops

SpecJournal == InitJournal /\ [][NextJournal]_vars

\* ------------------------------------------------------------------ statements about the Journal
\* C12: when a Journal has been loaded right after a restart, IsUploaded is
\* true for every path that was marked in memory when the file was last
\* written by a Save.
SaveLoadRoundTrip ==
    jReloaded => \A path \in jSaved : IsUploaded(path)

\* C13: once IsUploaded(path) is true it stays true over every step that is
\* a Journal operation other than Clear (a restart builds another Journal).
JournalMonotone ==
    [][jOp' \notin {"Clear", "New"} =>
          \A path \in PathNames : IsUploaded(path) => Uploads'[path] = "uploaded"]_vars

\* The last operation called was a Load and it is past its file-system part.
Loaded == jOp \in {"Load", "Load after New"} /\ mu # "Load"

\* C24: a Load that found no file at the path, or (called right after New)
\* the zero-byte file New creates where none existed, has returned nil,
\* left the mutex free and left the journal without entries.
LoadAbsentIsFreshStart ==
    (/\ Loaded
     /\ \/ disk.state = "absent"
        \/ jOp = "Load after New" /\ disk.state = "empty")
    => /\ jRet = "nil"
       /\ mu = "free"
       /\ ListCompleted = {}

\* C25: after a call of Clear the call has returned, the journal has no
\* entries (IsUploaded is false for every path, Stats is (0, 0)) and the file
\* holds the empty ledger.
ClearForcesEmptySave ==
    jOp = "Clear" =>
       /\ jRet = "nil"
       /\ mu = "free"
       /\ \A path \in PathNames : ~IsUploaded(path)
       /\ disk = [state |-> "json", keys |-> {}]

\* C26: a Save that is not the final one goes on to write the file only when
\* the last save is at least saveInterval old; the final save, when it has
\* returned nil, has left the current entries in the file.
SaveRateLimit ==
    [][/\ (jOp' \in {"Save", "PeriodicSave"} /\ mu = "free" /\ mu' \in {"Save", "Tick"})
             => ~recent
       /\ (jOp' = "FinalSave" /\ mu' = "free" /\ jRet' = "nil")
             => disk' = [state |-> "json", keys |-> Marshal(Uploads')]]_vars

\* C27: the step in which Load reads a file that does not parse returns an
\* error and changes neither the entries in memory nor the file, leaves the
\* mutex free (the journal stays usable and the run goes on) and leaves the
\* periodic save as it was.
CorruptLoadReturnsError ==
    [][(mu = "Load" /\ mu' # "Load" /\ jOp' # "New" /\ Unparsable(disk)) =>
          /\ jRet' = "err"
          /\ Uploads' = Uploads
          /\ disk' = disk
          /\ mu' = "free"
          /\ mainSaver' = mainSaver /\ saveCtx' = saveCtx]_vars

\* C27's case: a Load on a file cut short returned its error and an entry
\* marked before it is still there.
CorruptLoadReturnsErrorWitness ==
    /\ Loaded
    /\ disk.state = "corrupt"
    /\ jRet = "err"
    /\ mu = "free"
    /\ IsUploaded("a.jpg")

\* The goroutine of the periodic save is at a read of the entry map: the
\* marshalling inside Save, or len(j.Uploads) of its log line.
SaverAtMap == mainSaver \in {"save", "log"}

\* C28: whenever the periodic save's goroutine is at a read of the entry
\* map, it holds the journal's mutex (the other accesses are inside steps
\* taken under the mutex).
MapAccessUnderMutex == SaverAtMap => mu = "Tick"

\* A call that holds j.mu is at a file-system operation.
MutexHeldAtFileSystem == mu \in {"Save", "Load", "Tick"}

\* C29: in no state is a file-system operation of the journal in progress
\* while its mutex is held.
NoIOUnderMutex == ~MutexHeldAtFileSystem

\* C30: once saveCtx is done (StopPeriodicSave was called or the owner's
\* context cancelled), the goroutine of the periodic save calls Save no more.
SaverStopsWithOwner ==
    [][saveCtx = "canceled" =>
          ~(mainSaver = "ticked" /\ mainSaver' \in {"save", "log"})]_vars

====
